---- MODULE Spec2Model ----
(***************************************************************************)
(* Model of the ImagePolicy controller (jon94/chainguard-controller-poc):  *)
(* the reconciliation cycle of ImagePolicyReconciler, its digest           *)
(* resolver, workload scan, compliance analysis, attestation check,        *)
(* remediation and status/condition bookkeeping.                           *)
(*                                                                         *)
(* Strings that the code inspects (image references, digests) are          *)
(* sequences of tokens; a token is an atomic run of characters.  The       *)
(* separators "@" and ":" are tokens of their own, so that HasPrefix,      *)
(* Contains and Split act on token sequences as the Go functions act on    *)
(* the characters.  The empty string is the empty sequence.  Texts that    *)
(* the code only produces (reasons, messages, error texts) are TLA+        *)
(* strings.  A Go pointer that may be nil is a sequence of length 0 or 1.  *)
(***************************************************************************)
EXTENDS Integers, Sequences, FiniteSets, TLC

(***************************************************************************)
(* Bounds of the model                                                     *)
(***************************************************************************)
\* largest number of containers of a deployment drawn for the analyzer
MaxContainers == 2

\* the clock of the cycle model stops advancing beyond this second
MaxTime == 70

(***************************************************************************)
(* Go values                                                               *)
(***************************************************************************)
Nil == << >>

Some(x) == << x >>

IsNil(p) == Len(p) = 0

Deref(p) == p[1]

EmptyString == << >>

(***************************************************************************)
(* package strings                                                         *)
(***************************************************************************)
HasPrefix(s, prefix) ==
    /\ Len(prefix) <= Len(s)
    /\ SubSeq(s, 1, Len(prefix)) = prefix

Contains(s, substr) ==
    \E i \in 1..(Len(s) - Len(substr) + 1) :
        SubSeq(s, i, i + Len(substr) - 1) = substr

\* positions of the one-token separator sep in s
SepPositions(s, sep) == { i \in 1..Len(s) : s[i] = sep }

RECURSIVE SplitFrom(_, _, _)
\* the pieces of s from position start on, cut at every sep
SplitFrom(s, sep, start) ==
    LET later == { i \in SepPositions(s, sep) : i >= start }
    IN  IF later = {}
        THEN << SubSeq(s, start, Len(s)) >>
        ELSE LET p == CHOOSE i \in later : \A j \in later : i <= j
             IN  << SubSeq(s, start, p - 1) >> \o SplitFrom(s, sep, p + 1)

Split(s, sep) == SplitFrom(s, sep, 1)

\* number of characters of a token: H1, H2 and HK stand for three distinct
\* runs of 64 lowercase hexadecimal characters, h for a run of 3
TokLen(t) ==
    CASE t \in {"H1", "H2", "HK"} -> 64
      [] t = "h"                  -> 3
      [] t = "sha256"             -> 6
      [] t = "md5"                -> 3
      [] t \in {"@", ":"}         -> 1
      [] t = "acme/app"           -> 8
      [] t = "docker.io/"         -> 10
      [] t = "-sibling"           -> 8
      [] t = "latest"             -> 6
      [] t = "nginx"              -> 5
      [] OTHER                    -> 1

RECURSIVE StrLen(_)
StrLen(s) == IF s = << >> THEN 0 ELSE TokLen(Head(s)) + StrLen(Tail(s))

(***************************************************************************)
(* api/v1 constants                                                        *)
(***************************************************************************)
ComplianceStatusCompliant == "Compliant"

ComplianceStatusNonCompliant == "NonCompliant"

ComplianceStatusUnknown == "Unknown"

ComplianceStatusError == "Error"

ConditionTypeReady == "Ready"

ConditionTypeDegraded == "Degraded"

ConditionTrue == "True"

(***************************************************************************)
(* The values the model draws its inputs from                              *)
(***************************************************************************)
\* spec.repository of the policy
Repository == << "acme/app" >>

DockerIO == << "docker.io/" >>

D1 == << "sha256", ":", "H1" >>

D2 == << "sha256", ":", "H2" >>

\* the digest the first rekor client knows as attested
knownAttestedDigest == << "sha256", ":", "HK" >>

\* a digest too short to be a sha256 digest, and one of another algorithm
DShort == << "sha256", ":", "h" >>

DMd5 == << "md5", ":", "H1" >>

At == << "@" >>

TagLatest == << ":", "latest" >>

ImgTag == Repository \o TagLatest

ImgD1 == Repository \o At \o D1

ImgD2 == Repository \o At \o D2

ImgKnown == Repository \o At \o knownAttestedDigest

ImgDockerD1 == DockerIO \o Repository \o At \o D1

ImgDockerTag == DockerIO \o Repository \o TagLatest

ImgShort == Repository \o At \o DShort

\* a reference by a digest that is not sha256
ImgMd5 == Repository \o At \o DMd5

\* a reference with two "@": strings.Split gives three parts
ImgTwoAt == Repository \o At \o D1 \o At \o D1

\* an image of a sibling repository sharing the string prefix
ImgSibling == Repository \o << "-sibling" >> \o TagLatest

\* an image of an unrelated repository
ImgOther == << "nginx" >> \o TagLatest

Images ==
    { ImgTag, ImgD1, ImgD2, ImgKnown, ImgDockerD1, ImgDockerTag, ImgShort,
      ImgMd5, ImgTwoAt, ImgSibling, ImgOther }

IssuerGitHub == "https://token.actions.githubusercontent.com"

IssuerOther == "https://accounts.example.com"

TypeSlsa == "slsaprovenance"

TypeOther == "spdx"

(***************************************************************************)
(* internal/rekor: the attestation verifier                                *)
(***************************************************************************)
\* rekor.AttestationResult (Timestamp, which the controller never reads, is
\* left out)
AttestationResult(verified, type, issuer, logIndex, error) ==
    [ Verified |-> verified, AttestationType |-> type, Issuer |-> issuer,
      LogIndex |-> logIndex, Error |-> error ]

\* membership in a Go slice
InSlice(x, slice) == \E i \in 1..Len(slice) : slice[i] = x

\* matchesPolicy that takes an empty list for "nothing is allowed"
matchesPolicyRestrictive(result, allowedIssuers, requiredTypes) ==
    IF ~InSlice(result.Issuer, allowedIssuers)
    THEN [ ok |-> FALSE, Error |-> "issuer not in allowed list" ]
    ELSE IF ~InSlice(result.AttestationType, requiredTypes)
         THEN [ ok |-> FALSE, Error |-> "attestation type not in required list" ]
         ELSE [ ok |-> TRUE, Error |-> result.Error ]

\* Client.matchesPolicy: the verdict and the error text it leaves in result
matchesPolicy(result, allowedIssuers, requiredTypes) ==
    IF Len(allowedIssuers) > 0 /\ ~InSlice(result.Issuer, allowedIssuers)
    THEN [ ok |-> FALSE, Error |-> "issuer not in allowed list" ]
    ELSE IF Len(requiredTypes) > 0
            /\ ~InSlice(result.AttestationType, requiredTypes)
         THEN [ ok |-> FALSE, Error |-> "attestation type not in required list" ]
         ELSE [ ok |-> TRUE, Error |-> result.Error ]

\* Client.VerifyAttestation, the client that checks the policy's allow-lists
VerifyAttestation(imageDigest, allowedIssuers, requiredTypes) ==
    LET digestParts == Split(imageDigest, ":")
        result == AttestationResult(FALSE, TypeSlsa, IssuerGitHub, 566466542,
                      "Rekor search not fully implemented - using mock verification")
    IN  IF Len(digestParts) # 2 \/ digestParts[1] # << "sha256" >>
        THEN AttestationResult(FALSE, "", "", 0, "invalid digest format")
        ELSE IF Len(digestParts) = 2 /\ StrLen(digestParts[2]) = 64
             THEN LET m == matchesPolicy(result, allowedIssuers, requiredTypes)
                  IN  IF m.ok
                      THEN [ result EXCEPT !.Verified = TRUE, !.Error = "",
                                           !.LogIndex = 123456789 ]
                      ELSE [ result EXCEPT !.Error = m.Error ]
             ELSE [ result EXCEPT
                      !.Error = "Invalid digest format for Rekor verification" ]

\* Client.VerifyAttestation, the client that knows one attested digest
VerifyAttestationKnownDigest(imageDigest, allowedIssuers, requiredTypes) ==
    LET digestParts == Split(imageDigest, ":")
        result == AttestationResult(FALSE, TypeSlsa, IssuerGitHub, 566466542,
                      "Rekor search not fully implemented - using mock verification")
    IN  IF Len(digestParts) # 2 \/ digestParts[1] # << "sha256" >>
        THEN AttestationResult(FALSE, "", "", 0, "invalid digest format")
        ELSE IF imageDigest = knownAttestedDigest
             THEN [ result EXCEPT !.Verified = TRUE, !.Error = "",
                                  !.LogIndex = 566466542 ]
             ELSE [ result EXCEPT
                      !.Error = "No valid attestation found for digest in Rekor transparency log" ]

\* The reconciler's RekorClient field: nil, one of the two clients of
\* package rekor, or a client whose call comes back with a Go error (the
\* (result, error) signature allows it; the reconciler handles it).
RekorClients == { "nil", "policy", "known", "failing" }

\* RekorClient.VerifyAttestation as the reconciler sees it: result and err
RekorCall(client, imageDigest, allowedIssuers, requiredTypes) ==
    CASE client = "policy" ->
           [ result |-> VerifyAttestation(imageDigest, allowedIssuers, requiredTypes),
             err |-> FALSE ]
      [] client = "known" ->
           [ result |-> VerifyAttestationKnownDigest(imageDigest, allowedIssuers,
                                                     requiredTypes),
             err |-> FALSE ]
      [] OTHER ->
           [ result |-> AttestationResult(FALSE, "", "", 0, ""), err |-> TRUE ]

(***************************************************************************)
(* ImagePolicyReconciler: compliance analysis                              *)
(***************************************************************************)
\* spec.attestationPolicy (MaxAge, which no code reads, is left out)
AttestationPolicy(require, issuers, types) ==
    [ RequireAttestation |-> require, AllowedIssuers |-> issuers,
      RequiredTypes |-> types ]

\* the guard of the attestation block: all three pointers set and true
RequiresAttestation(attestationPolicy) ==
    /\ ~IsNil(attestationPolicy)
    /\ ~IsNil(Deref(attestationPolicy).RequireAttestation)
    /\ Deref(Deref(attestationPolicy).RequireAttestation)

\* verifyAttestation that passes the digest when it cannot ask rekor
verifyAttestationFailOpen(rekorClient, imageDigest, policy) ==
    IF imageDigest = EmptyString
    THEN [ result |-> AttestationResult(FALSE, "", "", 0,
                          "no image digest available for verification"),
           called |-> FALSE ]
    ELSE IF rekorClient = "nil"
         THEN [ result |-> AttestationResult(TRUE, "", "", 0, ""),
                called |-> FALSE ]
         ELSE LET c == RekorCall(rekorClient, imageDigest,
                                 policy.AllowedIssuers, policy.RequiredTypes)
              IN  IF c.err
                  THEN [ result |-> AttestationResult(TRUE, "", "", 0, ""),
                         called |-> TRUE ]
                  ELSE [ result |-> c.result, called |-> TRUE ]

\* ImagePolicyReconciler.verifyAttestation; called records whether the
\* rekor client was called
verifyAttestation(rekorClient, imageDigest, policy) ==
    IF imageDigest = EmptyString
    THEN [ result |-> AttestationResult(FALSE, "", "", 0,
                          "no image digest available for verification"),
           called |-> FALSE ]
    ELSE IF rekorClient = "nil"
         THEN [ result |-> AttestationResult(FALSE, "", "", 0,
                               "Rekor client not initialized"),
                called |-> FALSE ]
         ELSE LET c == RekorCall(rekorClient, imageDigest,
                                 policy.AllowedIssuers, policy.RequiredTypes)
              IN  IF c.err
                  THEN [ result |-> AttestationResult(FALSE, "", "", 0,
                                        "Rekor verification failed"),
                         called |-> TRUE ]
                  ELSE [ result |-> c.result, called |-> TRUE ]

\* ImageMatches without the docker.io/ form of the repository
ImageMatchesBare(image, repository) == HasPrefix(image, repository)

\* the test both the scanner, the analyzer and the actuator apply to an image
ImageMatches(image, repository) ==
    HasPrefix(image, repository) \/ HasPrefix(image, DockerIO \o repository)

\* FirstMatching that keeps the last container whose image matches
FirstMatchingLast(containers, repository) ==
    LET ms == { i \in 1..Len(containers) : ImageMatches(containers[i], repository) }
    IN  IF ms = {} THEN 0 ELSE CHOOSE i \in ms : \A j \in ms : i >= j

\* index of the first container whose image matches, 0 when there is none
FirstMatching(containers, repository) ==
    LET ms == { i \in 1..Len(containers) : ImageMatches(containers[i], repository) }
    IN  IF ms = {} THEN 0 ELSE CHOOSE i \in ms : \A j \in ms : i <= j

\* DigestCompliant without the fail-closed test of an empty latest digest
DigestCompliantNoFailClosed(currentDigest, latestDigest, enforceLatest) ==
    IF enforceLatest
    THEN IF currentDigest # latestDigest THEN FALSE ELSE TRUE
    ELSE TRUE

\* the verdict on a digest-qualified image (the enforceLatest block)
DigestCompliant(currentDigest, latestDigest, enforceLatest) ==
    IF enforceLatest
    THEN IF latestDigest = EmptyString THEN FALSE
         ELSE IF currentDigest # latestDigest THEN FALSE
         ELSE TRUE
    ELSE TRUE

\* TagCompliant that accepts a tag whatever the policy enforces
TagCompliantAlways(enforceLatest) == TRUE

\* the verdict on a tag-qualified image
TagCompliant(enforceLatest) == IF enforceLatest THEN FALSE ELSE TRUE

\* the digest rule of analyzeDeploymentCompliance, applied to the first
\* matching container: CurrentDigest and IsCompliant after the loop
DigestVerdict(containers, repository, latestDigest, enforceLatest) ==
    LET k == FirstMatching(containers, repository)
    IN  IF k = 0
        THEN [ CurrentDigest |-> EmptyString, IsCompliant |-> TRUE ]
        ELSE LET image == containers[k]
             IN  IF Contains(image, << "@", "sha256", ":" >>)
                 THEN LET parts == Split(image, "@")
                          current == IF Len(parts) = 2 THEN parts[2]
                                     ELSE EmptyString
                      IN  [ CurrentDigest |-> current,
                            IsCompliant |-> DigestCompliant(current, latestDigest,
                                                            enforceLatest) ]
                 ELSE [ CurrentDigest |-> << "tag-based" >>,
                        IsCompliant |-> TagCompliant(enforceLatest) ]

\* Unverifiable that lets an empty digest through to the verifier
UnverifiableTagOnly(currentDigest) == currentDigest = << "tag-based" >>

\* the digests the analyzer does not hand to the verifier
Unverifiable(currentDigest) ==
    currentDigest = << "tag-based" >> \/ currentDigest = EmptyString

\* the attestation the analyzer obtains when the policy requires one;
\* invoked records whether r.verifyAttestation was called
AttestationOutcome(rekorClient, currentDigest, attestationPolicy) ==
    IF Unverifiable(currentDigest)
    THEN [ result |-> AttestationResult(FALSE, "", "", 0,
               "Cannot verify attestations for tag-based images - digest required"),
           invoked |-> FALSE, called |-> FALSE ]
    ELSE LET v == verifyAttestation(rekorClient, currentDigest,
                                    Deref(attestationPolicy))
         IN  [ result |-> v.result, invoked |-> TRUE, called |-> v.called ]

\* CombineVerdicts that lets a verified attestation decide alone
CombineVerdictsAttestationOnly(digestCompliant, verified) == verified

\* the final verdict when attestation is required
CombineVerdicts(digestCompliant, verified) ==
    IF ~verified THEN FALSE ELSE digestCompliant

\* ImagePolicyReconciler.analyzeDeploymentCompliance: the DeploymentStatus,
\* and whether the verifier was invoked and the rekor client called
analyzeDeploymentCompliance(rekorClient, deployment, repository, latestDigest, enforceLatest, attestationPolicy, now) ==
    LET dv == DigestVerdict(deployment.Containers, repository, latestDigest,
                            enforceLatest)
        base == [ Name |-> deployment.Name, Namespace |-> deployment.Namespace,
                  CurrentDigest |-> dv.CurrentDigest,
                  IsCompliant |-> dv.IsCompliant,
                  HasValidAttestation |-> Nil, AttestationDetails |-> Nil,
                  LastUpdated |-> Some(now) ]
    IN  IF RequiresAttestation(attestationPolicy)
        THEN LET a == AttestationOutcome(rekorClient, dv.CurrentDigest,
                                         attestationPolicy)
                 r == a.result
             IN  [ status |->
                     [ base EXCEPT
                         !.HasValidAttestation = Some(r.Verified),
                         !.AttestationDetails = Some(
                             [ Verified |-> r.Verified,
                               AttestationType |-> r.AttestationType,
                               Issuer |-> r.Issuer,
                               RekorLogIndex |-> IF r.LogIndex > 0
                                                 THEN Some(r.LogIndex) ELSE Nil,
                               LastChecked |-> Some(now),
                               Error |-> r.Error ]),
                         !.IsCompliant = CombineVerdicts(dv.IsCompliant,
                                                         r.Verified) ],
                   verifierInvoked |-> a.invoked, rekorCalled |-> a.called ]
        ELSE [ status |-> base, verifierInvoked |-> FALSE,
               rekorCalled |-> FALSE ]

(***************************************************************************)
(* ImagePolicyReconciler: the digest resolver                              *)
(***************************************************************************)
maxRetries == 3

\* seconds
baseDelay == 5

DefaultCheckInterval == 60

\* What the registry answers to one attempt: the token request (transport
\* error, status, whether the body decodes as JSON) and the manifest
\* request (transport error, status, Docker-Content-Digest header).
Response(tokenErr, tokenStatus, tokenDecodes, manifestErr, manifestStatus, header) ==
    [ tokenErr |-> tokenErr, tokenStatus |-> tokenStatus,
      tokenDecodes |-> tokenDecodes, manifestErr |-> manifestErr,
      manifestStatus |-> manifestStatus, header |-> header ]

NoError == << >>

\* ImagePolicyReconciler.fetchDigestFromDockerHub: one attempt.  An error is
\* its text, a sequence of tokens; NoError is the nil error.
fetchDigestFromDockerHub(resp) ==
    IF resp.tokenErr
    THEN [ digest |-> EmptyString,
           err |-> << "failed to get auth token: ", "transport error" >> ]
    ELSE IF resp.tokenStatus = 429
    THEN [ digest |-> EmptyString,
           err |-> << "DockerHub auth API returned ", "status 429" >> ]
    ELSE IF ~resp.tokenDecodes
    THEN [ digest |-> EmptyString,
           err |-> << "failed to decode token response: ", "invalid character" >> ]
    ELSE IF resp.manifestErr
    THEN [ digest |-> EmptyString,
           err |-> << "failed to get manifest: ", "transport error" >> ]
    ELSE IF resp.manifestStatus = 429
    THEN [ digest |-> EmptyString,
           err |-> << "DockerHub registry API returned ", "status 429" >> ]
    ELSE IF resp.manifestStatus # 200
    THEN [ digest |-> EmptyString,
           err |-> << "DockerHub API returned ", "status other" >> ]
    ELSE IF resp.header = EmptyString
    THEN [ digest |-> EmptyString,
           err |-> << "no digest found in response headers" >> ]
    ELSE [ digest |-> resp.header, err |-> NoError ]

\* a test under which every error is retryable
IsRateLimitAnyError(err) == err # NoError

\* the test that makes an attempt's error retryable
IsRateLimit(err) == Contains(err, << "status 429" >>)

\* a backoff of the same length before every retry
RetryDelayConstant(attempt) == IF attempt > 0 THEN baseDelay ELSE 0

\* the seconds slept before the attempt with this index
RetryDelay(attempt) == IF attempt > 0 THEN attempt * baseDelay ELSE 0

\* a loop test that lets the attempt of index maxRetries through
MoreAttemptsInclusive(attempt) == attempt <= maxRetries

\* the test of the loop: attempt < maxRetries
MoreAttempts(attempt) == attempt < maxRetries

RECURSIVE ResolveFrom(_, _, _, _)
\* the loop of getLatestDigestFromDockerHub from the attempt with this index
\* on; script[attempt + 1] is what the registry answers to it
ResolveFrom(script, attempt, slept, waits) ==
    IF ~MoreAttempts(attempt)
    THEN [ digest |-> EmptyString,
           err |-> << "failed to fetch digest after 3 attempts due to rate limiting" >>,
           attempts |-> attempt, slept |-> slept, waits |-> waits ]
    ELSE LET d == RetryDelay(attempt)
             f == fetchDigestFromDockerHub(script[attempt + 1])
             w == IF attempt > 0 THEN Append(waits, d) ELSE waits
         IN  IF f.err # NoError
             THEN IF IsRateLimit(f.err)
                  THEN ResolveFrom(script, attempt + 1, slept + d, w)
                  ELSE [ digest |-> EmptyString, err |-> f.err,
                         attempts |-> attempt + 1, slept |-> slept + d,
                         waits |-> w ]
             ELSE [ digest |-> f.digest, err |-> NoError,
                    attempts |-> attempt + 1, slept |-> slept + d,
                    waits |-> w ]

\* ImagePolicyReconciler.getLatestDigestFromDockerHub against a registry
\* that answers the attempts as the script says
getLatestDigestFromDockerHub(script) == ResolveFrom(script, 0, 0, << >>)

(***************************************************************************)
(* ImagePolicyReconciler: scan, remediation, conditions                    *)
(***************************************************************************)
\* A label selector: the labels it asks for, and whether
\* metav1.LabelSelectorAsSelector rejects it
LabelSelector(matchLabels, malformed) ==
    [ MatchLabels |-> matchLabels, Malformed |-> malformed ]

SelectorMatches(selector, labels) == selector.MatchLabels \subseteq labels

\* the namespaces of the cluster, in the order the API lists them
Namespaces ==
    << [ Name |-> "demo", Labels |-> { << "env", "demo" >> } ],
       [ Name |-> "prod", Labels |-> { << "env", "prod" >> } ] >>

RECURSIVE SelectNames(_, _)
\* the names of the namespaces the selector (a pointer) lets through
SelectNames(nss, selector) ==
    IF nss = << >> THEN << >>
    ELSE IF IsNil(selector) \/ SelectorMatches(Deref(selector), Head(nss).Labels)
         THEN << Head(nss).Name >> \o SelectNames(Tail(nss), selector)
         ELSE SelectNames(Tail(nss), selector)

\* ImagePolicyReconciler.getNamespacesToMonitor; listErr is the outcome of
\* the API call
getNamespacesToMonitor(policySpec, listErr) ==
    IF IsNil(policySpec.NamespaceSelector)
    THEN IF listErr THEN [ err |-> TRUE, namespaces |-> << >> ]
         ELSE [ err |-> FALSE, namespaces |-> SelectNames(Namespaces, Nil) ]
    ELSE IF Deref(policySpec.NamespaceSelector).Malformed
         THEN [ err |-> TRUE, namespaces |-> << >> ]
         ELSE IF listErr THEN [ err |-> TRUE, namespaces |-> << >> ]
         ELSE [ err |-> FALSE,
                namespaces |-> SelectNames(Namespaces, policySpec.NamespaceSelector) ]

\* ImagePolicyReconciler.deploymentUsesRepository
deploymentUsesRepository(deployment, repository) ==
    \E i \in 1..Len(deployment.Containers) :
        ImageMatches(deployment.Containers[i], repository)

RECURSIVE DeploymentsIn(_, _, _, _)
\* the deployments of the listed namespaces that the deployment selector
\* lets through and that use the repository, namespace by namespace
DeploymentsIn(namespaces, cluster, policySpec, repository) ==
    IF namespaces = << >> THEN << >>
    ELSE LET Listed(d) ==
                 /\ d.Namespace = Head(namespaces)
                 /\ \/ IsNil(policySpec.DeploymentSelector)
                    \/ SelectorMatches(Deref(policySpec.DeploymentSelector),
                                       d.Labels)
                 /\ deploymentUsesRepository(d, repository)
         IN  SelectSeq(cluster, Listed)
             \o DeploymentsIn(Tail(namespaces), cluster, policySpec, repository)

\* ImagePolicyReconciler.findDeploymentsToMonitor over the deployments of
\* the cluster; listErr is the outcome of the API calls
findDeploymentsToMonitor(cluster, policySpec, repository, listErr) ==
    LET ns == getNamespacesToMonitor(policySpec, listErr)
    IN  IF ns.err THEN [ err |-> TRUE, deployments |-> << >> ]
        ELSE IF ns.namespaces # << >>
                /\ ~IsNil(policySpec.DeploymentSelector)
                /\ Deref(policySpec.DeploymentSelector).Malformed
        THEN [ err |-> TRUE, deployments |-> << >> ]
        ELSE IF ns.namespaces # << >> /\ listErr
        THEN [ err |-> TRUE, deployments |-> << >> ]
        ELSE [ err |-> FALSE,
               deployments |-> DeploymentsIn(ns.namespaces, cluster, policySpec,
                                             repository) ]

\* hasAutomationEnabled that only asks whether the label is there
hasAutomationLabel(deployment) ==
    \E kv \in deployment.Labels : kv[1] = "automation"

\* ImagePolicyReconciler.hasAutomationEnabled (Labels is the set of the
\* key/value pairs of the map; a nil map has none)
hasAutomationEnabled(deployment) ==
    \E kv \in deployment.Labels : kv[1] = "automation" /\ kv[2] = "true"

\* RemediatedImage that drops the registry prefix of the original
RemediatedImageBare(image, repository, latestDigest) ==
    repository \o At \o latestDigest

\* the image remediateDeployment puts in place of a matching one
RemediatedImage(image, repository, latestDigest) ==
    LET repoName == IF HasPrefix(image, DockerIO)
                    THEN DockerIO \o repository ELSE repository
    IN  repoName \o At \o latestDigest

\* ImagePolicyReconciler.remediateDeployment up to the Update call: whether
\* a container matched, and the containers of the deployment to apply
remediateDeployment(deployment, repository, latestDigest) ==
    [ updated |-> \E i \in 1..Len(deployment.Containers) :
                     ImageMatches(deployment.Containers[i], repository),
      containers |->
          [ i \in 1..Len(deployment.Containers) |->
              IF ImageMatches(deployment.Containers[i], repository)
              THEN RemediatedImage(deployment.Containers[i], repository,
                                   latestDigest)
              ELSE deployment.Containers[i] ] ]

Condition(type, status, time, reason, message) ==
    [ Type |-> type, Status |-> status, LastTransitionTime |-> time,
      Reason |-> reason, Message |-> message ]

\* index of the first condition of this type, 0 when there is none
ConditionIndex(conditions, conditionType) ==
    LET ms == { i \in 1..Len(conditions) : conditions[i].Type = conditionType }
    IN  IF ms = {} THEN 0 ELSE CHOOSE i \in ms : \A j \in ms : i <= j

\* a transition time that is always the time of the call
TransitionTimeAlwaysNow(existingCondition, status, now) == now

\* the lastTransitionTime updateCondition gives to a condition that exists
TransitionTime(existingCondition, status, now) ==
    IF existingCondition.Status # status THEN now
    ELSE existingCondition.LastTransitionTime

\* updateCondition that adds a condition whether or not the type is there
updateConditionAppend(conditions, conditionType, status, reason, message, now) ==
    Append(conditions, Condition(conditionType, status, now, reason, message))

\* ImagePolicyReconciler.updateCondition on the conditions of the status
updateCondition(conditions, conditionType, status, reason, message, now) ==
    LET k == ConditionIndex(conditions, conditionType)
    IN  IF k > 0
        THEN [ conditions EXCEPT ![k] =
                 Condition(conditionType, status,
                           TransitionTime(conditions[k], status, now),
                           reason, message) ]
        ELSE Append(conditions,
                    Condition(conditionType, status, now, reason, message))

\* OverallStatus without the case of no deployments
OverallStatusNoZeroCase(total, compliantCount) ==
    IF compliantCount = total
    THEN [ ComplianceStatus |-> ComplianceStatusCompliant,
           Reason |-> "AllCompliant",
           Message |-> << "All monitored deployments are compliant" >> ]
    ELSE [ ComplianceStatus |-> ComplianceStatusNonCompliant,
           Reason |-> "NonCompliant",
           Message |-> << ToString(total - compliantCount), " of ",
                          ToString(total),
                          " deployments are non-compliant" >> ]

\* the overall compliance status and the Ready condition at the end of
\* Reconcile
OverallStatus(total, compliantCount) ==
    IF total = 0
    THEN [ ComplianceStatus |-> ComplianceStatusUnknown,
           Reason |-> "NoDeployments",
           Message |-> << "No deployments found matching the policy" >> ]
    ELSE IF compliantCount = total
    THEN [ ComplianceStatus |-> ComplianceStatusCompliant,
           Reason |-> "AllCompliant",
           Message |-> << "All monitored deployments are compliant" >> ]
    ELSE [ ComplianceStatus |-> ComplianceStatusNonCompliant,
           Reason |-> "NonCompliant",
           Message |-> << ToString(total - compliantCount), " of ",
                          ToString(total),
                          " deployments are non-compliant" >> ]

(***************************************************************************)
(* State                                                                   *)
(***************************************************************************)
VARIABLES
    policySpec, \* spec of the ImagePolicy
    rekor,      \* the reconciler's RekorClient field
    status,     \* status of the ImagePolicy as the API server stores it
    cluster,    \* the deployments of the cluster, in listing order
    clock,      \* the wall clock, in seconds
    pc,         \* where the running Reconcile call stands; "idle" between calls
    cyc,        \* the locals of the running Reconcile call
    hist,       \* what the current (or, when idle, the last) call has done
    aIn,        \* the arguments of one call of analyzeDeploymentCompliance
    aOut,       \* Nil before the call, then what the call returned
    vCall,      \* one call of the rekor client: arguments and returns
    cCall,      \* one call of updateCondition: arguments and return
    res,        \* one call of the digest resolver, step by step
    rCall,      \* one call of remediateDeployment: arguments and return
    two         \* two policies reconciled at the same time on one cluster

vars ==
    << policySpec, rekor, status, cluster, clock, pc, cyc, hist, aIn, aOut,
       vCall, cCall, res, rCall, two >>

\* the variables of the calls studied on their own
callVars == << vCall, cCall, res, rCall, two >>

cycleVars == << policySpec, rekor, status, cluster, clock, pc, cyc, hist >>

(***************************************************************************)
(* The inputs of the reconciliation cycle                                  *)
(***************************************************************************)
\* largest number of deployments in the cluster
MaxDeployments == 4

Deployment(name, namespace, labels, containers) ==
    [ Name |-> name, Namespace |-> namespace, Labels |-> labels,
      Containers |-> containers ]

\* the deployments a cluster is filled from, in this order
Fleet ==
    << Deployment("web", "demo",
                  { << "automation", "true" >>, << "tier", "web" >> },
                  << ImgSibling, ImgDockerTag >>),
       Deployment("api", "prod", { << "automation", "false" >> },
                  << ImgOther, ImgDockerD1 >>),
       Deployment("db", "prod", { << "automation", "true" >> },
                  << ImgOther >>),
       Deployment("job", "demo", { << "tier", "web" >> },
                  << ImgD1, ImgTag >>),
       Deployment("sib", "demo", { << "automation", "true" >> },
                  << ImgD2 >>) >>

Clusters ==
    { SubSeq(Fleet, 1, n) : n \in 0..(IF MaxDeployments < Len(Fleet)
                                       THEN MaxDeployments ELSE Len(Fleet)) }

PolicySpec(interval, enforce, attestation, nsSelector, depSelector) ==
    [ Repository |-> Repository, CheckIntervalSeconds |-> interval,
      EnforceLatestDigest |-> enforce, AttestationPolicy |-> attestation,
      NamespaceSelector |-> nsSelector, DeploymentSelector |-> depSelector ]

SelectDemo == Some(LabelSelector({ << "env", "demo" >> }, FALSE))

SelectNone == Some(LabelSelector({ << "env", "test" >> }, FALSE))

SelectWeb == Some(LabelSelector({ << "tier", "web" >> }, FALSE))

SelectMalformed == Some(LabelSelector({}, TRUE))

RequireAny == Some(AttestationPolicy(Some(TRUE), << >>, << >>))

\* the policies and reconcilers a behaviour starts from: the interval and
\* the enforcement without attestation, attestation with and without a
\* rekor client, and every selector with the defaults
Setups ==
    { [ policySpec |-> PolicySpec(iv, en, Nil, Nil, Nil), rekor |-> "policy" ] :
        iv \in { Nil, Some(10) }, en \in { Nil, Some(FALSE) } }
    \cup
    { [ policySpec |-> PolicySpec(Nil, Some(TRUE), Nil, Nil, Nil),
        rekor |-> "nil" ] }
    \cup
    { [ policySpec |-> PolicySpec(Nil, en, RequireAny, Nil, Nil),
        rekor |-> rk ] :
        en \in { Nil, Some(FALSE) }, rk \in { "policy", "nil" } }
    \cup
    { [ policySpec |-> PolicySpec(Nil, Nil, Nil, sel[1], sel[2]),
        rekor |-> "nil" ] :
        sel \in { << SelectDemo, Nil >>, << Nil, SelectWeb >>,
                  << SelectNone, SelectMalformed >>,
                  << SelectMalformed, Nil >>, << Nil, SelectMalformed >> } }

\* the instants the clock shows
Instants == { t \in { 0, 60, 70 } : t <= MaxTime }

\* what the registry answers to an attempt
Responses ==
    { Response(FALSE, 200, TRUE, FALSE, 429, D1),   \* manifest: 429
      Response(FALSE, 200, TRUE, FALSE, 404, D1),   \* manifest: 404
      Response(FALSE, 200, TRUE, FALSE, 200, D1),
      Response(FALSE, 200, TRUE, FALSE, 200, D2) }

Scripts == [ 1..maxRetries -> Responses ]

(***************************************************************************)
(* The reconciliation cycle                                                *)
(***************************************************************************)
EmptyStatus ==
    [ LatestDigest |-> EmptyString, LastChecked |-> Nil,
      ComplianceStatus |-> "", MonitoredDeployments |-> << >>,
      TotalDeployments |-> 0, CompliantDeployments |-> 0,
      Conditions |-> << >> ]

\* the locals of Reconcile between calls
NoCycle ==
    [ status |-> EmptyStatus, checkInterval |-> 0, enforceLatest |-> FALSE,
      now |-> 0, latestDigest |-> EmptyString, deployments |-> << >>,
      i |-> 0, deploymentStatuses |-> << >>, compliantCount |-> 0 ]

NoHistory ==
    [ outcome |-> "none", requeueAfter |-> 0,
      refresh |-> "none", writes |-> 0, analysed |-> << >>,
      updates |-> << >> ]

\* what is kept of a call once it has returned: its result, whether it
\* fetched the digest, and the number of its status writes
Returned(h, outcome, requeueAfter, written) ==
    [ NoHistory EXCEPT !.outcome = outcome, !.requeueAfter = requeueAfter,
                       !.refresh = h.refresh, !.writes = h.writes + written ]

\* the analyzer's variables while the cycle runs
AnalyzerIdle ==
    [ rekorClient |-> "nil", deployment |-> Deployment("", "", {}, << >>),
      latestDigest |-> EmptyString, enforceLatest |-> FALSE,
      attestationPolicy |-> Nil ]

\* the variables of the calls studied on their own, when none is
VerifierIdle ==
    [ client |-> "nil", digest |-> EmptyString, allowedIssuers |-> << >>,
      requiredTypes |-> << >>, entry |-> AttestationResult(FALSE, "", "", 0, ""),
      ret |-> Nil, match |-> Nil ]

ConditionIdle ==
    [ conditions |-> << >>, conditionType |-> "", status |-> "", reason |-> "",
      message |-> << >>, now |-> 0, ret |-> Nil ]

ResolverIdle ==
    [ pc |-> "idle", script |-> << >>, attempt |-> 0, cancelledAt |-> "",
      waits |-> << >>, slept |-> 0, attempts |-> 0,
      requests |-> 0, lateRequests |-> 0, lateWaits |-> 0,
      digest |-> EmptyString, err |-> NoError ]

RemediateIdle ==
    [ deployment |-> Deployment("", "", {}, << >>), repository |-> EmptyString,
      latestDigest |-> EmptyString, updateOk |-> FALSE, ret |-> Nil ]

TwoIdle ==
    [ spec |-> << >>, pc |-> << >>, cyc |-> << >>, status |-> << >>,
      cluster |-> << >>, accesses |-> {} ]

CallsIdle ==
    /\ vCall = VerifierIdle /\ cCall = ConditionIdle /\ res = ResolverIdle
    /\ rCall = RemediateIdle /\ two = TwoIdle

Init ==
    /\ \E s \in Setups : policySpec = s.policySpec /\ rekor = s.rekor
    /\ cluster \in Clusters
    /\ status = EmptyStatus
    /\ clock = 0
    /\ pc = "idle"
    /\ cyc = NoCycle
    /\ hist = NoHistory
    /\ aIn = AnalyzerIdle
    /\ aOut = Nil
    /\ CallsIdle

\* time passes: between the calls of Reconcile and while the resolver sleeps
\* and waits for the registry
Tick ==
    /\ pc \in { "idle", "resolve" }
    /\ \E t \in Instants : t > clock /\ clock' = t
    /\ UNCHANGED << policySpec, rekor, status, cluster, pc, cyc, hist, aIn, aOut, callVars >>

\* shouldCheck that fires as soon as the interval has elapsed
ShouldCheckAtInterval(lastChecked, now, checkInterval) ==
    IsNil(lastChecked) \/ now - Deref(lastChecked) >= checkInterval

\* shouldCheck of Reconcile
ShouldCheck(lastChecked, now, checkInterval) ==
    IsNil(lastChecked) \/ now - Deref(lastChecked) > checkInterval

\* a check interval that is the default whatever the policy says
CheckIntervalDefault(spec) == DefaultCheckInterval

\* checkInterval of Reconcile: the policy's, 60 seconds when it sets none
CheckInterval(spec) ==
    IF IsNil(spec.CheckIntervalSeconds) THEN DefaultCheckInterval
    ELSE Deref(spec.CheckIntervalSeconds)

\* Reconcile up to the decision whether to fetch the digest: r.Get, the
\* defaults, now and shouldCheck
Begin ==
    /\ pc = "idle"
    /\ \E get \in { "ok", "notfound", "error" } :
         IF get # "ok"
         THEN /\ hist' = [ NoHistory EXCEPT
                             !.outcome = IF get = "notfound" THEN "gone"
                                         ELSE "error" ]
              /\ UNCHANGED << pc, cyc >>
         ELSE LET checkInterval == CheckInterval(policySpec)
                  enforceLatest ==
                      IF IsNil(policySpec.EnforceLatestDigest) THEN TRUE
                      ELSE Deref(policySpec.EnforceLatestDigest)
                  shouldCheck == ShouldCheck(status.LastChecked, clock,
                                             checkInterval)
              IN  /\ cyc' = [ NoCycle EXCEPT
                                !.status = status,
                                !.checkInterval = checkInterval,
                                !.enforceLatest = enforceLatest,
                                !.now = clock,
                                !.latestDigest = IF shouldCheck THEN EmptyString
                                                 ELSE status.LatestDigest ]
                  /\ hist' = [ NoHistory EXCEPT
                                 !.outcome = "running",
                                 !.refresh = IF shouldCheck THEN "none"
                                             ELSE "skipped" ]
                  /\ pc' = IF shouldCheck THEN "resolve" ELSE "scan"
    /\ UNCHANGED << policySpec, rekor, status, cluster, clock, aIn, aOut, callVars >>

\* RefreshDigest that stores what the resolver returned before it looks at
\* the error
RefreshDigestUnchecked(st, r, now, conditionTime) ==
    IF r.err # NoError
    THEN [ st EXCEPT
             !.LatestDigest = r.digest,
             !.LastChecked = Some(now),
             !.Conditions = updateCondition(st.Conditions,
                                ConditionTypeDegraded, ConditionTrue,
                                "DockerHubError",
                                << "Failed to fetch digest: " >> \o r.err,
                                conditionTime),
             !.ComplianceStatus = ComplianceStatusError ]
    ELSE [ st EXCEPT !.LatestDigest = r.digest, !.LastChecked = Some(now) ]

\* what the shouldCheck branch of Reconcile does to the status of its copy
\* of the policy, given the resolver's return r
RefreshDigest(st, r, now, conditionTime) ==
    IF r.err # NoError
    THEN [ st EXCEPT
             !.Conditions = updateCondition(st.Conditions,
                                ConditionTypeDegraded, ConditionTrue,
                                "DockerHubError",
                                << "Failed to fetch digest: " >> \o r.err,
                                conditionTime),
             !.ComplianceStatus = ComplianceStatusError ]
    ELSE [ st EXCEPT !.LatestDigest = r.digest, !.LastChecked = Some(now) ]

\* the branch of Reconcile that fetches the digest; the local latestDigest
\* is what the resolver returned, also when it returned an error
Resolve ==
    /\ pc = "resolve"
    /\ \E script \in Scripts :
         LET r == getLatestDigestFromDockerHub(script)
         IN  /\ cyc' = [ cyc EXCEPT
                           !.latestDigest = r.digest,
                           !.status = RefreshDigest(cyc.status, r, cyc.now, clock) ]
             /\ hist' = [ hist EXCEPT
                            !.refresh = IF r.err # NoError THEN "failed"
                                        ELSE "ok" ]
    /\ pc' = "scan"
    /\ UNCHANGED << policySpec, rekor, status, cluster, clock, aIn, aOut, callVars >>

\* Scan that saves the status of its copy before it returns the error
ScanSavingOnError ==
    /\ pc = "scan"
    /\ \E listErr \in BOOLEAN :
         LET f == findDeploymentsToMonitor(cluster, policySpec,
                                           policySpec.Repository, listErr)
         IN  IF f.err
             THEN /\ pc' = "idle"
                  /\ cyc' = NoCycle
                  /\ hist' = Returned(hist, "error", 0, 0)
                  /\ status' = cyc.status
             ELSE /\ pc' = IF f.deployments = << >> THEN "write" ELSE "analyze"
                  /\ cyc' = [ cyc EXCEPT !.deployments = f.deployments, !.i = 1 ]
                  /\ UNCHANGED << hist, status >>
    /\ UNCHANGED << policySpec, rekor, cluster, clock, aIn, aOut, callVars >>

\* findDeploymentsToMonitor and its error return
Scan ==
    /\ pc = "scan"
    /\ \E listErr \in BOOLEAN :
         LET f == findDeploymentsToMonitor(cluster, policySpec,
                                           policySpec.Repository, listErr)
         IN  IF f.err
             THEN /\ pc' = "idle"
                  /\ cyc' = NoCycle
                  /\ hist' = Returned(hist, "error", 0, 0)
             ELSE /\ pc' = IF f.deployments = << >> THEN "write" ELSE "analyze"
                  /\ cyc' = [ cyc EXCEPT !.deployments = f.deployments, !.i = 1 ]
                  /\ UNCHANGED hist
    /\ UNCHANGED << policySpec, rekor, status, cluster, clock, aIn, aOut, callVars >>

\* ApplyUpdate that finds the stored object by its name alone
ApplyUpdateByName(cl, deployment, containers) ==
    [ k \in 1..Len(cl) |->
        IF cl[k].Name = deployment.Name
        THEN [ cl[k] EXCEPT !.Containers = containers ]
        ELSE cl[k] ]

\* r.Update of a deployment: the stored object gets the new containers
ApplyUpdate(cl, deployment, containers) ==
    [ k \in 1..Len(cl) |->
        IF cl[k].Name = deployment.Name /\ cl[k].Namespace = deployment.Namespace
        THEN [ cl[k] EXCEPT !.Containers = containers ]
        ELSE cl[k] ]

\* the decision of Reconcile to remediate a deployment it has analysed
ShouldRemediate(isCompliant, enforceLatest, deployment, latestDigest) ==
    /\ ~isCompliant
    /\ enforceLatest
    /\ hasAutomationEnabled(deployment) /\ latestDigest # EmptyString

\* RecordedVerdict that restates a deployment it has just remediated
RecordedVerdictRestated(st, remediated, latestDigest) ==
    IF remediated
    THEN [ st EXCEPT !.CurrentDigest = latestDigest, !.IsCompliant = TRUE ]
    ELSE st

\* the DeploymentStatus Reconcile records for a deployment: the one of the
\* analysis, appended and counted before the remediation and left alone
\* after it
RecordedVerdict(st, remediated, latestDigest) == st

\* NextInLoop that leaves the loop at a failed update
NextInLoopBreaking(i, n, updateFailed) ==
    IF i = n \/ updateFailed THEN "write" ELSE "analyze"

\* where Reconcile goes after the deployment of index i of n: the error of
\* remediateDeployment is logged and the loop goes on
NextInLoop(i, n, updateFailed) == IF i = n THEN "write" ELSE "analyze"

\* the locals of the loop after the verdict on one deployment
Recorded(c, st) ==
    [ c EXCEPT !.deploymentStatuses = Append(@, st),
               !.compliantCount = IF st.IsCompliant THEN @ + 1 ELSE @,
               !.i = @ + 1 ]

\* one pass of the loop of Reconcile over the deployments
ProcessDeployment ==
    /\ pc = "analyze"
    /\ LET deployment == cyc.deployments[cyc.i]
           a == analyzeDeploymentCompliance(rekor, deployment,
                    policySpec.Repository, cyc.latestDigest, cyc.enforceLatest,
                    policySpec.AttestationPolicy, clock)
           st == a.status
           rem == remediateDeployment(deployment, policySpec.Repository,
                                      cyc.latestDigest)
           seen == [ deployment |-> deployment,
                     latestDigest |-> cyc.latestDigest,
                     isCompliant |-> st.IsCompliant ]
       IN  IF ShouldRemediate(st.IsCompliant, cyc.enforceLatest, deployment,
                              cyc.latestDigest)
              THEN \E updateOk \in BOOLEAN :
                     /\ cyc' = Recorded(cyc,
                                  RecordedVerdict(st, rem.updated /\ updateOk,
                                                  cyc.latestDigest))
                     /\ pc' = NextInLoop(cyc.i, Len(cyc.deployments),
                                         ~(rem.updated /\ updateOk))
                     /\ cluster' = IF rem.updated /\ updateOk
                                   THEN ApplyUpdate(cluster, deployment,
                                                    rem.containers)
                                   ELSE cluster
                     /\ hist' = [ hist EXCEPT
                                    !.analysed = Append(@, seen),
                                    !.updates = Append(@,
                                        [ deployment |-> deployment,
                                          isCompliant |-> st.IsCompliant,
                                          enforceLatest |-> cyc.enforceLatest,
                                          latestDigest |-> cyc.latestDigest,
                                          containers |-> rem.containers,
                                          applied |-> rem.updated,
                                          ok |-> rem.updated /\ updateOk ]) ]
              ELSE /\ cyc' = Recorded(cyc, st)
                   /\ pc' = NextInLoop(cyc.i, Len(cyc.deployments), FALSE)
                   /\ hist' = [ hist EXCEPT !.analysed = Append(@, seen) ]
                   /\ UNCHANGED cluster
    /\ UNCHANGED << policySpec, rekor, status, clock, aIn, aOut, callVars >>

\* FinalStatus that adds the deployments of the cycle to those stored
FinalStatusMerging(st, deploymentStatuses, total, compliantCount, now) ==
    LET o == OverallStatus(total, compliantCount)
    IN  [ st EXCEPT
            !.MonitoredDeployments = st.MonitoredDeployments \o deploymentStatuses,
            !.TotalDeployments = total,
            !.CompliantDeployments = compliantCount,
            !.ComplianceStatus = o.ComplianceStatus,
            !.Conditions = updateCondition(st.Conditions, ConditionTypeReady,
                               ConditionTrue, o.Reason, o.Message, now) ]

\* the status Reconcile hands to Status().Update
FinalStatus(st, deploymentStatuses, total, compliantCount, now) ==
    LET o == OverallStatus(total, compliantCount)
    IN  [ st EXCEPT
            !.MonitoredDeployments = deploymentStatuses,
            !.TotalDeployments = total,
            !.CompliantDeployments = compliantCount,
            !.ComplianceStatus = o.ComplianceStatus,
            !.Conditions = updateCondition(st.Conditions, ConditionTypeReady,
                               ConditionTrue, o.Reason, o.Message, now) ]

\* the end of Reconcile: the status fields, the Ready condition, the status
\* write and the result
Finish ==
    /\ pc = "write"
    /\ \E writeOk \in BOOLEAN :
         LET final == FinalStatus(cyc.status, cyc.deploymentStatuses,
                                  Len(cyc.deployments), cyc.compliantCount, clock)
         IN  IF writeOk
             THEN /\ status' = final
                  /\ hist' = Returned(hist, "requeue", cyc.checkInterval, 1)
             ELSE /\ hist' = Returned(hist, "error", 0, 0)
                  /\ UNCHANGED status
    /\ pc' = "idle"
    /\ cyc' = NoCycle
    /\ UNCHANGED << policySpec, rekor, cluster, clock, aIn, aOut, callVars >>

Next == Tick \/ Begin \/ Resolve \/ Scan \/ ProcessDeployment \/ Finish

Spec == Init /\ [][Next]_vars

(***************************************************************************)
(* The same cycle on clusters with several deployments that carry          *)
(* automation=true, under the policy with every default                    *)
(***************************************************************************)
FleetNamed(name) ==
    Fleet[CHOOSE k \in 1..Len(Fleet) : Fleet[k].Name = name]

RemediableClusters ==
    { << FleetNamed("web"), FleetNamed("sib") >>,
      << FleetNamed("sib"), FleetNamed("web") >>,
      << FleetNamed("web"), FleetNamed("job"), FleetNamed("sib") >> }

InitRemediable ==
    /\ policySpec = PolicySpec(Nil, Nil, Nil, Nil, Nil)
    /\ rekor = "nil"
    /\ cluster \in RemediableClusters
    /\ status = EmptyStatus
    /\ clock = 0
    /\ pc = "idle"
    /\ cyc = NoCycle
    /\ hist = NoHistory
    /\ aIn = AnalyzerIdle
    /\ aOut = Nil
    /\ CallsIdle

SpecRemediable == InitRemediable /\ [][Next]_vars

(***************************************************************************)
(* The same cycle on clusters made for the scanner: deployments in both    *)
(* namespaces, with and without the label the workload selector asks for,  *)
(* with an image of the repository, of a sibling repository, behind        *)
(* docker.io/, and of another repository; under every pair of selectors    *)
(***************************************************************************)
ScanFleet ==
    << Deployment("twin", "demo", { << "tier", "web" >> }, << ImgSibling >>),
       Deployment("hub", "prod", { << "tier", "web" >> },
                  << ImgOther, ImgDockerD1 >>),
       Deployment("db", "prod", { << "tier", "web" >> }, << ImgOther >>),
       Deployment("job", "demo", {}, << ImgShort >>) >>

ScanClusters == { SubSeq(ScanFleet, 1, n) : n \in 0..Len(ScanFleet) }

InitScan ==
    /\ \E ns \in { Nil, SelectDemo, SelectNone }, ds \in { Nil, SelectWeb } :
         policySpec = PolicySpec(Nil, Nil, Nil, ns, ds)
    /\ rekor = "nil"
    /\ cluster \in ScanClusters
    /\ status = EmptyStatus
    /\ clock = 0
    /\ pc = "idle"
    /\ cyc = NoCycle
    /\ hist = NoHistory
    /\ aIn = AnalyzerIdle
    /\ aOut = Nil
    /\ CallsIdle

SpecScan == InitScan /\ [][Next]_vars

(***************************************************************************)
(* The analyzer on its own: one call on drawn arguments                    *)
(***************************************************************************)
ContainerLists == UNION { [ 1..n -> Images ] : n \in 1..MaxContainers }

LatestDigests == { EmptyString, D1, D2 }

IssuerLists == { << >>, << IssuerGitHub >>, << IssuerOther >>,
                 << IssuerOther, IssuerGitHub >> }

TypeLists == { << >>, << TypeSlsa >>, << TypeOther >>,
               << TypeOther, TypeSlsa >> }

AttestationPolicies ==
    { Nil, Some(AttestationPolicy(Nil, << >>, << >>)),
      Some(AttestationPolicy(Some(FALSE), << >>, << >>)) }
    \cup { Some(AttestationPolicy(Some(TRUE), i, t)) :
             i \in IssuerLists, t \in TypeLists }

InitAnalyze ==
    /\ aIn \in [ rekorClient : RekorClients,
                 deployment : { Deployment("web", "demo", {}, c) :
                                  c \in ContainerLists },
                 latestDigest : LatestDigests,
                 enforceLatest : BOOLEAN,
                 attestationPolicy : AttestationPolicies ]
    /\ aOut = Nil
    /\ CallsIdle
    /\ policySpec = PolicySpec(Nil, Nil, Nil, Nil, Nil)
    /\ rekor = "nil"
    /\ cluster = << >>
    /\ status = EmptyStatus
    /\ clock = 0
    /\ pc = "idle"
    /\ cyc = NoCycle
    /\ hist = NoHistory

Analyze ==
    /\ aOut = Nil
    /\ aOut' = Some(analyzeDeploymentCompliance(aIn.rekorClient, aIn.deployment,
                        Repository, aIn.latestDigest, aIn.enforceLatest,
                        aIn.attestationPolicy, 0))
    /\ UNCHANGED << aIn, cycleVars, callVars >>

NextAnalyze == Analyze

SpecAnalyze == InitAnalyze /\ [][NextAnalyze]_vars

\* the cycle and the analyzer at rest
CycleIdle ==
    /\ policySpec = PolicySpec(Nil, Nil, Nil, Nil, Nil)
    /\ rekor = "nil"
    /\ cluster = << >>
    /\ status = EmptyStatus
    /\ clock = 0
    /\ pc = "idle"
    /\ cyc = NoCycle
    /\ hist = NoHistory
    /\ aIn = AnalyzerIdle
    /\ aOut = Nil

(***************************************************************************)
(* The rekor client on its own: one call on drawn arguments, and one call  *)
(* of matchesPolicy on a drawn log entry                                   *)
(***************************************************************************)
\* a digest with a third part, as "sha256:H1:x"
DThreeParts == D1 \o << ":", "x" >>

VerifyDigests ==
    { EmptyString, D1, D2, knownAttestedDigest, DShort, DMd5, DThreeParts }

InitVerify ==
    /\ vCall \in [ client : { "policy", "known" },
                   digest : VerifyDigests,
                   allowedIssuers : IssuerLists,
                   requiredTypes : TypeLists,
                   entry : { AttestationResult(FALSE, t, i, 566466542, "") :
                               t \in { TypeSlsa, TypeOther },
                               i \in { IssuerGitHub, IssuerOther } },
                   ret : { Nil }, match : { Nil } ]
    /\ cCall = ConditionIdle
    /\ res = ResolverIdle
    /\ rCall = RemediateIdle
    /\ two = TwoIdle
    /\ CycleIdle

\* RekorClient.VerifyAttestation(ctx, digest, allowedIssuers, requiredTypes)
Verify ==
    /\ vCall.ret = Nil
    /\ vCall' = [ vCall EXCEPT !.ret =
                    Some(RekorCall(vCall.client, vCall.digest,
                                   vCall.allowedIssuers,
                                   vCall.requiredTypes).result) ]
    /\ UNCHANGED << cycleVars, aIn, aOut, cCall, res, rCall, two >>

\* c.matchesPolicy(entry, allowedIssuers, requiredTypes)
Match ==
    /\ vCall.match = Nil
    /\ vCall' = [ vCall EXCEPT !.match =
                    Some(matchesPolicy(vCall.entry, vCall.allowedIssuers,
                                       vCall.requiredTypes)) ]
    /\ UNCHANGED << cycleVars, aIn, aOut, cCall, res, rCall, two >>

NextVerify == Verify \/ Match

SpecVerify == InitVerify /\ [][NextVerify]_vars

(***************************************************************************)
(* updateCondition on its own: one call on a drawn list of conditions of   *)
(* distinct types, set at earlier times                                    *)
(***************************************************************************)
MaxConditions == 2

ConditionTypes == { ConditionTypeReady, ConditionTypeDegraded, "Progressing" }

ConditionStatuses == { ConditionTrue, "False" }

\* the time of the call; the stored conditions are older
CallTime == 3

StoredConditions ==
    { Condition(t, st, time, "Old", << "old message" >>) :
        t \in ConditionTypes, st \in ConditionStatuses, time \in { 1, 2 } }

ConditionLists ==
    { q \in UNION { [ 1..n -> StoredConditions ] : n \in 0..MaxConditions } :
        \A i, j \in 1..Len(q) : q[i].Type = q[j].Type => i = j }

InitCondition ==
    /\ cCall \in [ conditions : ConditionLists,
                   conditionType : ConditionTypes,
                   status : ConditionStatuses,
                   reason : { "New" },
                   message : { << "new message" >> },
                   now : { CallTime },
                   ret : { Nil } ]
    /\ vCall = VerifierIdle
    /\ res = ResolverIdle
    /\ rCall = RemediateIdle
    /\ two = TwoIdle
    /\ CycleIdle

\* r.updateCondition(policy, conditionType, status, reason, message)
UpdateCondition ==
    /\ cCall.ret = Nil
    /\ cCall' = [ cCall EXCEPT !.ret =
                    Some(updateCondition(cCall.conditions, cCall.conditionType,
                                         cCall.status, cCall.reason,
                                         cCall.message, cCall.now)) ]
    /\ UNCHANGED << cycleVars, aIn, aOut, vCall, res, rCall, two >>

NextCondition == UpdateCondition

SpecCondition == InitCondition /\ [][NextCondition]_vars

(***************************************************************************)
(* remediateDeployment on its own: one call on a drawn deployment, with    *)
(* the outcome of r.Update drawn; ret holds the error, whether an update   *)
(* was sent, and the containers of the stored deployment after the call    *)
(***************************************************************************)
\* a repository named with the registry in front
RepositoryQualified == DockerIO \o Repository

RemediateDeployments ==
    { Deployment("web", "demo", { << "automation", "true" >> }, cs) :
        cs \in UNION { [ 1..n -> Images ] : n \in 1..MaxContainers } }

InitRemediate ==
    /\ rCall \in [ deployment : RemediateDeployments,
                   repository : { Repository, RepositoryQualified },
                   latestDigest : { D1, D2 },
                   updateOk : BOOLEAN,
                   ret : { Nil } ]
    /\ vCall = VerifierIdle
    /\ cCall = ConditionIdle
    /\ res = ResolverIdle
    /\ two = TwoIdle
    /\ CycleIdle

\* r.remediateDeployment(ctx, deployment, repository, latestDigest)
Remediate ==
    /\ rCall.ret = Nil
    /\ LET rem == remediateDeployment(rCall.deployment, rCall.repository,
                                      rCall.latestDigest)
       IN  rCall' = [ rCall EXCEPT !.ret = Some(
             IF ~rem.updated
             THEN [ err |-> "no containers found using repository",
                    sent |-> FALSE,
                    stored |-> rCall.deployment.Containers ]
             ELSE IF ~rCall.updateOk
             THEN [ err |-> "failed to update deployment", sent |-> TRUE,
                    stored |-> rCall.deployment.Containers ]
             ELSE [ err |-> "", sent |-> TRUE, stored |-> rem.containers ]) ]
    /\ UNCHANGED << cycleVars, aIn, aOut, vCall, cCall, res, two >>

NextRemediate == Remediate

SpecRemediate == InitRemediate /\ [][NextRemediate]_vars

(***************************************************************************)
(* Two policies of one reconciler on one cluster, one cycle each, their    *)
(* steps interleaved.  Each cycle has its own copy of its policy and its   *)
(* own locals; the cluster's deployments and the two stored statuses are   *)
(* reached through the API client.  accesses records which cycle read or   *)
(* wrote which object: a policy with its status, or a deployment.          *)
(***************************************************************************)
RepositorySibling == Repository \o << "-sibling" >>

SelectProd == Some(LabelSelector({ << "env", "prod" >> }, FALSE))

\* a policy like PolicySpec for the repository given
PolicyFor(repository, nsSelector) ==
    [ PolicySpec(Nil, Nil, Nil, nsSelector, Nil) EXCEPT
        !.Repository = repository ]

\* the pairs of policies: the same repository everywhere, the same
\* repository in two namespaces, a repository and its sibling
PolicyPairs ==
    { << PolicyFor(Repository, Nil), PolicyFor(Repository, Nil) >>,
      << PolicyFor(Repository, SelectDemo), PolicyFor(Repository, SelectProd) >>,
      << PolicyFor(Repository, Nil), PolicyFor(RepositorySibling, Nil) >>,
      << PolicyFor(Repository, SelectDemo), PolicyFor(RepositorySibling, Nil) >> }

\* two deployments of the same name in the two namespaces
TwoCluster ==
    << Deployment("web", "demo", { << "automation", "true" >> },
                  << ImgSibling >>),
       Deployment("web", "prod", { << "automation", "true" >> },
                  << ImgTag >>) >>

PolicyObject(p) == << "policy", p >>

DeploymentObject(d) == << "deployment", d.Namespace, d.Name >>

Access(p, mode, object) == [ policy |-> p, mode |-> mode, object |-> object ]

InitTwo ==
    /\ \E pair \in PolicyPairs :
         two = [ spec |-> pair,
                 pc |-> << "idle", "idle" >>,
                 cyc |-> << NoCycle, NoCycle >>,
                 status |-> << EmptyStatus, EmptyStatus >>,
                 cluster |-> TwoCluster,
                 accesses |-> {} ]
    /\ vCall = VerifierIdle
    /\ cCall = ConditionIdle
    /\ res = ResolverIdle
    /\ rCall = RemediateIdle
    /\ CycleIdle

\* Reconcile of policy p up to shouldCheck: r.Get and the defaults
TwoBegin(p) ==
    /\ two.pc[p] = "idle"
    /\ two' = [ two EXCEPT
                  !.pc[p] = "resolve",
                  !.cyc[p] = [ NoCycle EXCEPT
                                 !.status = two.status[p],
                                 !.checkInterval = CheckInterval(two.spec[p]),
                                 !.enforceLatest =
                                     IF IsNil(two.spec[p].EnforceLatestDigest)
                                     THEN TRUE
                                     ELSE Deref(two.spec[p].EnforceLatestDigest) ],
                  !.accesses = @ \cup { Access(p, "r", PolicyObject(p)) } ]
    /\ UNCHANGED << cycleVars, aIn, aOut, vCall, cCall, res, rCall >>

\* the first cycle of a policy fetches the digest
TwoResolve(p) ==
    /\ two.pc[p] = "resolve"
    /\ \E script \in Scripts :
         LET r == getLatestDigestFromDockerHub(script)
         IN  two' = [ two EXCEPT
                        !.pc[p] = "scan",
                        !.cyc[p].latestDigest = r.digest,
                        !.cyc[p].status = RefreshDigest(two.cyc[p].status, r, 0, 0) ]
    /\ UNCHANGED << cycleVars, aIn, aOut, vCall, cCall, res, rCall >>

\* what r.List hands to findDeploymentsToMonitor: the deployments of the
\* resolved namespaces that pass the deployment selector, of any repository
ListedDeployments(cl, spec) ==
    LET ns == getNamespacesToMonitor(spec, FALSE)
    IN  IF ns.err THEN << >>
        ELSE DeploymentsIn(ns.namespaces, cl, spec, EmptyString)

\* findDeploymentsToMonitor of policy p: the cycle keeps its own copies of
\* the deployments that use the repository
TwoScan(p) ==
    /\ two.pc[p] = "scan"
    /\ \E listErr \in BOOLEAN :
         LET f == findDeploymentsToMonitor(two.cluster, two.spec[p],
                                           two.spec[p].Repository, listErr)
             listed == ListedDeployments(two.cluster, two.spec[p])
         IN  IF f.err
             THEN two' = [ two EXCEPT !.pc[p] = "failed", !.cyc[p] = NoCycle ]
             ELSE two' = [ two EXCEPT
                             !.pc[p] = IF f.deployments = << >> THEN "write"
                                       ELSE "analyze",
                             !.cyc[p].deployments = f.deployments,
                             !.cyc[p].i = 1,
                             !.accesses = @ \cup
                                 { Access(p, "r", DeploymentObject(listed[k])) :
                                     k \in 1..Len(listed) } ]
    /\ UNCHANGED << cycleVars, aIn, aOut, vCall, cCall, res, rCall >>

\* the stored deployment the copy was made of
StoredDeployment(cl, deployment) ==
    cl[CHOOSE k \in 1..Len(cl) :
          /\ cl[k].Name = deployment.Name
          /\ cl[k].Namespace = deployment.Namespace]

\* the objects whose stored value an update has changed
Written(old, new) ==
    { DeploymentObject(old[k]) : k \in { j \in 1..Len(old) : new[j] # old[j] } }

\* one pass of the loop of policy p.  r.Update sends the cycle's copy with
\* the resourceVersion it was read at: the API server refuses it when the
\* stored deployment has changed since.
TwoProcess(p) ==
    /\ two.pc[p] = "analyze"
    /\ LET c == two.cyc[p]
           spec == two.spec[p]
           deployment == c.deployments[c.i]
           st == analyzeDeploymentCompliance("nil", deployment, spec.Repository,
                     c.latestDigest, c.enforceLatest, spec.AttestationPolicy,
                     0).status
           rem == remediateDeployment(deployment, spec.Repository,
                                      c.latestDigest)
       IN  IF ShouldRemediate(st.IsCompliant, c.enforceLatest, deployment,
                              c.latestDigest)
           THEN \E updateOk \in BOOLEAN :
                  LET applied ==
                          /\ rem.updated /\ updateOk
                          /\ StoredDeployment(two.cluster, deployment) = deployment
                      stored == IF applied
                                THEN ApplyUpdate(two.cluster, deployment,
                                                 rem.containers)
                                ELSE two.cluster
                  IN  two' = [ two EXCEPT
                        !.cyc[p] = Recorded(c, RecordedVerdict(st, applied,
                                                              c.latestDigest)),
                        !.pc[p] = NextInLoop(c.i, Len(c.deployments), ~applied),
                        !.cluster = stored,
                        !.accesses = @ \cup
                            { Access(p, "w", o) : o \in Written(two.cluster, stored) } ]
           ELSE two' = [ two EXCEPT
                           !.cyc[p] = Recorded(c, st),
                           !.pc[p] = NextInLoop(c.i, Len(c.deployments), FALSE) ]
    /\ UNCHANGED << cycleVars, aIn, aOut, vCall, cCall, res, rCall >>

\* the end of Reconcile of policy p: r.Status().Update of its own policy
TwoFinish(p) ==
    /\ two.pc[p] = "write"
    /\ \E writeOk \in BOOLEAN :
         LET c == two.cyc[p]
             final == FinalStatus(c.status, c.deploymentStatuses,
                                  Len(c.deployments), c.compliantCount, 0)
         IN  IF writeOk
             THEN two' = [ two EXCEPT
                             !.pc[p] = "done",
                             !.status[p] = final,
                             !.accesses = @ \cup
                                 { Access(p, "w", PolicyObject(p)) } ]
             ELSE two' = [ two EXCEPT !.pc[p] = "failed" ]
    /\ UNCHANGED << cycleVars, aIn, aOut, vCall, cCall, res, rCall >>

NextTwo ==
    \E p \in 1..2 :
        TwoBegin(p) \/ TwoResolve(p) \/ TwoScan(p) \/ TwoProcess(p) \/ TwoFinish(p)

SpecTwo == InitTwo /\ [][NextTwo]_vars

(***************************************************************************)
(* The digest resolver on its own, step by step: the loop head, the        *)
(* backoff sleep, the token request and its answer, the manifest request;  *)
(* the caller may cancel the context at any moment before the return.      *)
(* res counts the attempts, the requests sent, and the requests sent and   *)
(* sleeps finished after the cancellation.                                 *)
(***************************************************************************)
ResolverResponses ==
    { Response(TRUE, 0, FALSE, FALSE, 0, EmptyString),      \* no connection
      Response(FALSE, 429, FALSE, FALSE, 0, EmptyString),   \* token 429
      Response(FALSE, 500, FALSE, FALSE, 0, EmptyString),   \* token body not JSON
      Response(FALSE, 401, TRUE, FALSE, 401, EmptyString),  \* auth refused
      Response(FALSE, 403, TRUE, FALSE, 200, D2),  \* token refused, manifest served
      Response(FALSE, 200, TRUE, TRUE, 0, EmptyString),     \* manifest: no connection
      Response(FALSE, 200, TRUE, FALSE, 429, EmptyString),  \* manifest 429
      Response(FALSE, 200, TRUE, FALSE, 404, EmptyString),  \* manifest 404
      Response(FALSE, 200, TRUE, FALSE, 200, EmptyString),  \* no digest header
      Response(FALSE, 200, TRUE, FALSE, 200, D1) }

\* one answer more than the loop ever asks for
ResolverScripts == [ 1..(maxRetries + 1) -> ResolverResponses ]

InitResolve ==
    /\ res \in { [ ResolverIdle EXCEPT !.pc = "loop", !.script = sc ] :
                    sc \in ResolverScripts }
    /\ vCall = VerifierIdle
    /\ cCall = ConditionIdle
    /\ rCall = RemediateIdle
    /\ two = TwoIdle
    /\ CycleIdle

Cancelled(r) == r.cancelledAt # ""

\* what the loop does with the return of fetchDigestFromDockerHub
AttemptEnds(r, f) ==
    IF f.err # NoError
    THEN IF IsRateLimit(f.err)
         THEN [ r EXCEPT !.attempt = @ + 1, !.pc = "loop" ]
         ELSE [ r EXCEPT !.pc = "done", !.digest = EmptyString, !.err = f.err ]
    ELSE [ r EXCEPT !.pc = "done", !.digest = f.digest, !.err = NoError ]

\* the answer to the token request ends the attempt
TokenFails(resp) ==
    resp.tokenErr \/ resp.tokenStatus = 429 \/ ~resp.tokenDecodes

\* for attempt := 0; attempt < maxRetries; attempt++ { if attempt > 0 {
LoopHead ==
    /\ res.pc = "loop"
    /\ res' =
         IF ~MoreAttempts(res.attempt)
         THEN [ res EXCEPT !.pc = "done", !.digest = EmptyString,
                  !.err = << "failed to fetch digest after 3 attempts due to rate limiting" >> ]
         ELSE IF res.attempt > 0
              THEN [ res EXCEPT !.pc = "sleep",
                       !.waits = Append(@, RetryDelay(res.attempt)) ]
              ELSE [ res EXCEPT !.pc = "token" ]
    /\ UNCHANGED << cycleVars, aIn, aOut, vCall, cCall, rCall, two >>

\* time.Sleep(delay): runs to its end, cancelled context or not
Sleep ==
    /\ res.pc = "sleep"
    /\ res' = [ res EXCEPT !.pc = "token",
                  !.slept = @ + RetryDelay(res.attempt),
                  !.lateWaits = IF Cancelled(res) THEN @ + 1 ELSE @ ]
    /\ UNCHANGED << cycleVars, aIn, aOut, vCall, cCall, rCall, two >>

\* http.Get(tokenURL): sent without the context
TokenRequest ==
    /\ res.pc = "token"
    /\ res' = [ res EXCEPT !.pc = "tokenwait",
                  !.attempts = @ + 1,
                  !.requests = @ + 1,
                  !.lateRequests = IF Cancelled(res) THEN @ + 1 ELSE @ ]
    /\ UNCHANGED << cycleVars, aIn, aOut, vCall, cCall, rCall, two >>

\* the answer to the token request, up to the decoding of its body
TokenAnswer ==
    /\ res.pc = "tokenwait"
    /\ LET resp == res.script[res.attempt + 1]
       IN  res' = IF TokenFails(resp)
                  THEN AttemptEnds(res, fetchDigestFromDockerHub(resp))
                  ELSE [ res EXCEPT !.pc = "manifest" ]
    /\ UNCHANGED << cycleVars, aIn, aOut, vCall, cCall, rCall, two >>

\* the manifest request, made with the context: under a cancelled context
\* client.Do sends nothing and returns an error
ManifestRequest ==
    /\ res.pc = "manifest"
    /\ LET resp == res.script[res.attempt + 1]
       IN  res' =
             IF Cancelled(res)
             THEN AttemptEnds(res,
                    fetchDigestFromDockerHub([ resp EXCEPT !.manifestErr = TRUE ]))
             ELSE AttemptEnds([ res EXCEPT !.requests = @ + 1 ],
                              fetchDigestFromDockerHub(resp))
    /\ UNCHANGED << cycleVars, aIn, aOut, vCall, cCall, rCall, two >>

\* the caller cancels ctx (deadline or shutdown)
Cancel ==
    /\ res.pc \in { "loop", "sleep", "token", "tokenwait", "manifest" }
    /\ ~Cancelled(res)
    /\ res' = [ res EXCEPT !.cancelledAt = res.pc ]
    /\ UNCHANGED << cycleVars, aIn, aOut, vCall, cCall, rCall, two >>

NextResolve ==
    LoopHead \/ Sleep \/ TokenRequest \/ TokenAnswer \/ ManifestRequest \/ Cancel

SpecResolve == InitResolve /\ [][NextResolve]_vars

(***************************************************************************)
(* Properties of the analyzer (checked under SpecAnalyze)                  *)
(***************************************************************************)
Analyzed == ~IsNil(aOut)

AStatus == Deref(aOut).status

ARequires == RequiresAttestation(aIn.attestationPolicy)

\* the first matching image of the analysed deployment (a non-matching
\* deployment has none)
AFirst == FirstMatching(aIn.deployment.Containers, Repository)

AImage == aIn.deployment.Containers[AFirst]

ADigestQualified == AFirst > 0 /\ Contains(AImage, << "@", "sha256", ":" >>)

ATagQualified == AFirst > 0 /\ ~Contains(AImage, << "@", "sha256", ":" >>)

\* the verdict the analyzer gives the same deployment when the policy has
\* no attestation block: the digest verdict
ADigestOnly ==
    analyzeDeploymentCompliance(aIn.rekorClient, aIn.deployment, Repository,
        aIn.latestDigest, aIn.enforceLatest, Nil, 0).status.IsCompliant

AVerified == Deref(AStatus.AttestationDetails).Verified

\* C6: when the policy requires attestation, isCompliant is the conjunction
\* of the digest verdict and the attestation verdict, for every input.
C6_CompliantIsDigestAndAttestation ==
    (Analyzed /\ ARequires) =>
        /\ ~IsNil(AStatus.AttestationDetails)
        /\ AStatus.IsCompliant = (ADigestOnly /\ AVerified)

\* C6 witness: the digest check passed against a non-empty latest digest,
\* the attestation failed, and the workload is reported non-compliant.
C6_Witness ==
    /\ Analyzed /\ ARequires /\ aIn.enforceLatest
    /\ ADigestQualified /\ aIn.latestDigest # EmptyString
    /\ AStatus.CurrentDigest = aIn.latestDigest
    /\ ADigestOnly /\ ~AVerified /\ ~AStatus.IsCompliant

\* C7: with enforceLatestDigest and no attestation requirement, a
\* digest-qualified workload is compliant iff latestDigest is non-empty and
\* equals the extracted digest; an empty latestDigest never gives compliant.
C7_DigestMatchFailClosed ==
    (Analyzed /\ aIn.enforceLatest /\ ~ARequires /\ ADigestQualified) =>
        /\ AStatus.IsCompliant =
              (aIn.latestDigest # EmptyString
               /\ AStatus.CurrentDigest = aIn.latestDigest)
        /\ (aIn.latestDigest = EmptyString => ~AStatus.IsCompliant)

\* C7 witness: a digest-qualified workload judged against an empty latest
\* digest, and one whose extracted digest is empty as well.
C7_Witness ==
    /\ Analyzed /\ aIn.enforceLatest /\ ~ARequires /\ ADigestQualified
    /\ aIn.latestDigest = EmptyString
    /\ AStatus.CurrentDigest = EmptyString
    /\ ~AStatus.IsCompliant

\* C8: a tag-qualified first matching image gives currentDigest "tag-based",
\* and without attestation requirement isCompliant = ~enforceLatestDigest,
\* whatever latestDigest is.
C8_TagBased ==
    (Analyzed /\ ATagQualified) =>
        /\ AStatus.CurrentDigest = << "tag-based" >>
        /\ (~ARequires => AStatus.IsCompliant = ~aIn.enforceLatest)

\* C8 witness: a tag-qualified workload found compliant because the policy
\* does not enforce the latest digest, although a latest digest is known.
C8_Witness ==
    /\ Analyzed /\ ATagQualified /\ ~ARequires
    /\ ~aIn.enforceLatest /\ aIn.latestDigest # EmptyString
    /\ AStatus.CurrentDigest = << "tag-based" >> /\ AStatus.IsCompliant

\* C9: with attestation required and a "tag-based" or empty currentDigest
\* the verifier is not invoked, hasValidAttestation is false and the
\* workload is non-compliant, even when the digest rule is satisfied.
C9_TagBasedAttestationAutoFails ==
    (Analyzed /\ ARequires
       /\ AStatus.CurrentDigest \in { << "tag-based" >>, EmptyString }) =>
        /\ ~Deref(aOut).verifierInvoked
        /\ ~Deref(aOut).rekorCalled
        /\ AStatus.HasValidAttestation = Some(FALSE)
        /\ ~AStatus.IsCompliant

\* C9 witness: enforceLatestDigest is false, so the tag satisfies the digest
\* rule, and the workload is still non-compliant.
C9_Witness ==
    /\ Analyzed /\ ARequires /\ ~aIn.enforceLatest /\ ATagQualified
    /\ aIn.rekorClient # "nil"
    /\ ADigestOnly /\ ~AStatus.IsCompliant
    /\ AStatus.HasValidAttestation = Some(FALSE)

\* C10: with attestation required and the rekor client absent, or its call
\* failing, the attestation is recorded as not verified with a non-empty
\* reason and the workload is non-compliant.
C10_VerifierUnavailableFailsClosed ==
    (Analyzed /\ ARequires /\ aIn.rekorClient \in { "nil", "failing" }) =>
        /\ AStatus.HasValidAttestation = Some(FALSE)
        /\ ~IsNil(AStatus.AttestationDetails)
        /\ ~AVerified
        /\ Deref(AStatus.AttestationDetails).Error # ""
        /\ ~AStatus.IsCompliant

\* C10 witness: the verifier was invoked for a digest equal to the latest
\* digest, there is no rekor client, and the workload is non-compliant.
C10_Witness ==
    /\ Analyzed /\ ARequires /\ aIn.rekorClient = "nil"
    /\ Deref(aOut).verifierInvoked /\ ~Deref(aOut).rekorCalled
    /\ aIn.enforceLatest /\ AStatus.CurrentDigest = aIn.latestDigest
    /\ ADigestOnly /\ ~AStatus.IsCompliant
    /\ Deref(AStatus.AttestationDetails).Error = "Rekor client not initialized"

(***************************************************************************)
(* Properties of the reconciliation cycle (checked under Spec)             *)
(***************************************************************************)
\* a call of Reconcile has returned after writing the status
Completed == pc = "idle" /\ hist.outcome = "requeue"

HasCondition(conditions, type, st) ==
    \E k \in 1..Len(conditions) :
        conditions[k].Type = type /\ conditions[k].Status = st

\* the step of Reconcile that writes the status
StatusWrite == pc = "write" /\ hist'.writes = hist.writes + 1

\* C1: a cycle whose digest refresh failed persists complianceStatus = Error,
\* whatever the workload counts.
C1_FailedRefreshPersistsError ==
    (Completed /\ hist.refresh = "failed") =>
        status.ComplianceStatus = ComplianceStatusError

\* C2: when the refresh fails and the stored status holds a non-empty
\* latestDigest, every workload of the cycle is analysed, and its
\* remediation decided, against that cached digest.
C2_FailedRefreshUsesCachedDigest ==
    (hist.refresh = "failed" /\ status.LatestDigest # EmptyString) =>
        /\ \A k \in 1..Len(hist.analysed) :
              hist.analysed[k].latestDigest = status.LatestDigest
        /\ pc \in { "scan", "analyze", "write" } =>
              cyc.latestDigest = status.LatestDigest

\* C3: the write of a cycle whose refresh failed leaves latestDigest and
\* lastChecked as stored and stores a Degraded condition with status True;
\* latestDigest and lastChecked change only in a cycle whose refresh
\* succeeded.
C3_FailedRefreshKeepsDigest ==
    [][ /\ (StatusWrite /\ hist.refresh = "failed") =>
             /\ status'.LatestDigest = status.LatestDigest
             /\ status'.LastChecked = status.LastChecked
             /\ HasCondition(status'.Conditions, ConditionTypeDegraded,
                             ConditionTrue)
        /\ (status'.LatestDigest # status.LatestDigest
              \/ status'.LastChecked # status.LastChecked) =>
             (StatusWrite /\ hist.refresh = "ok") ]_vars

\* C3 witness: a cycle whose refresh failed has written the status; the
\* digest cached by an earlier cycle and its time are still stored, with
\* the Degraded condition.
C3_Witness ==
    /\ Completed /\ hist.refresh = "failed"
    /\ status.LatestDigest # EmptyString
    /\ ~IsNil(status.LastChecked) /\ Deref(status.LastChecked) < clock
    /\ HasCondition(status.Conditions, ConditionTypeDegraded, ConditionTrue)

\* C4: a cycle writes the status at most once, as its last effect: exactly
\* once when it completes, never when it aborts, and the stored status
\* changes in no other step.
C4_SingleStatusWriteAtEnd ==
    [][ /\ hist'.writes <= 1
        /\ pc' # "idle" => hist'.writes = 0
        /\ (pc' = "idle" /\ hist'.outcome = "requeue") => hist'.writes = 1
        /\ (pc' = "idle" /\ hist'.outcome \in { "error", "gone" }) =>
              hist'.writes = 0
        /\ hist'.writes # hist.writes =>
              \/ StatusWrite /\ pc' = "idle"
              \/ pc = "idle" /\ hist'.writes = 0
        /\ status' # status => StatusWrite ]_vars

\* C4 witness: a cycle fetched a digest and then aborted; it wrote nothing
\* and the stored status is still the empty one.
C4_Witness ==
    /\ pc = "idle" /\ hist.outcome = "error" /\ hist.refresh = "ok"
    /\ hist.writes = 0
    /\ status = EmptyStatus

\* enforceLatestDigest of the policy, true when unset
PolicyEnforces ==
    IsNil(policySpec.EnforceLatestDigest) \/ Deref(policySpec.EnforceLatestDigest)

\* C5: a workload update is attempted only for a workload that was found
\* non-compliant, under a policy that enforces the latest digest, carrying
\* the label automation=true, with a non-empty latest digest in the cycle;
\* the deployments of the cluster change in no other way.
C5_RemediationPreconditions ==
    [][ /\ \A k \in 1..Len(hist'.updates) :
             LET u == hist'.updates[k]
             IN  /\ ~u.isCompliant
                 /\ PolicyEnforces
                 /\ << "automation", "true" >> \in u.deployment.Labels
                 /\ u.latestDigest # EmptyString
        /\ cluster' # cluster =>
             /\ Len(hist'.updates) = Len(hist.updates) + 1
             /\ hist'.updates[Len(hist'.updates)].ok ]_vars

\* C5 witness: an update of a workload has been applied in the running cycle.
C5_Witness ==
    /\ pc \in { "analyze", "write" }
    /\ \E k \in 1..Len(hist.updates) :
         /\ hist.updates[k].ok
         /\ hist.updates[k].containers # hist.updates[k].deployment.Containers

\* the deployments of a persisted status that are compliant
CompliantIn(ds) == { i \in 1..Len(ds) : ds[i].IsCompliant }

\* C17: a status persisted by a cycle whose digest resolution did not fail
\* is Unknown exactly when it counts no deployment, Compliant exactly when
\* it counts at least one and all are compliant, NonCompliant otherwise;
\* the counts are those of the deployments it lists.
C17_OverallStatusRule ==
    [][ (StatusWrite /\ hist.refresh \in { "ok", "skipped" }) =>
          LET total == status'.TotalDeployments
              compliant == status'.CompliantDeployments
              overall == status'.ComplianceStatus
          IN  /\ total = Len(status'.MonitoredDeployments)
              /\ compliant = Cardinality(CompliantIn(status'.MonitoredDeployments))
              /\ overall = ComplianceStatusUnknown <=> total = 0
              /\ overall = ComplianceStatusCompliant <=>
                     (total > 0 /\ compliant = total)
              /\ overall = ComplianceStatusNonCompliant <=>
                     (total > 0 /\ compliant # total) ]_vars

\* C17 witness: a cycle that fetched the digest has persisted Compliant for
\* a fleet of at least one deployment.
C17_Witness ==
    /\ Completed /\ hist.refresh = "ok"
    /\ status.ComplianceStatus = ComplianceStatusCompliant
    /\ status.TotalDeployments > 0

\* the refresh is due: lastChecked unset, or more than the interval ago
\* (60 seconds when the policy sets none)
RefreshDue ==
    LET interval == IF IsNil(policySpec.CheckIntervalSeconds) THEN 60
                    ELSE Deref(policySpec.CheckIntervalSeconds)
    IN  \/ IsNil(status.LastChecked)
        \/ clock - Deref(status.LastChecked) > interval

\* C18: a cycle goes to the resolver exactly when the refresh is due; a
\* cycle that skips it never calls the resolver, and analyses and
\* remediates with the stored latestDigest.
C18_RefreshIffDue ==
    [][ /\ (pc = "idle" /\ hist'.outcome = "running") =>
              /\ pc' = "resolve" <=> RefreshDue
              /\ ~RefreshDue =>
                    /\ hist'.refresh = "skipped"
                    /\ cyc'.latestDigest = status.LatestDigest
        /\ (pc # "idle" /\ hist.refresh = "skipped") =>
              /\ pc' # "resolve"
              /\ hist'.refresh = "skipped"
              /\ cyc.latestDigest = status.LatestDigest
        /\ (pc = "analyze" /\ hist.refresh = "skipped") =>
              /\ hist'.analysed[Len(hist'.analysed)].latestDigest
                   = status.LatestDigest
              /\ Len(hist'.updates) > Len(hist.updates) =>
                    LET u == hist'.updates[Len(hist'.updates)]
                    IN  /\ u.latestDigest = status.LatestDigest
                        /\ u.containers =
                             remediateDeployment(u.deployment,
                                 policySpec.Repository,
                                 status.LatestDigest).containers ]_vars

\* C18 witness: a cycle begun exactly one interval after lastChecked has
\* skipped the resolver and is about to scan.
C18_Witness ==
    /\ pc = "scan" /\ hist.refresh = "skipped"
    /\ ~IsNil(status.LastChecked)
    /\ cyc.now - Deref(status.LastChecked) = cyc.checkInterval

DistinctTypes(conditions) ==
    \A i, j \in 1..Len(conditions) :
        conditions[i].Type = conditions[j].Type => i = j

\* C19: the conditions of the status, stored or being computed by a cycle,
\* never hold two entries of the same type.
C19_ConditionTypesDistinct ==
    DistinctTypes(status.Conditions) /\ DistinctTypes(cyc.status.Conditions)

\* C19 witness: after a cycle whose refresh failed and later cycles, the
\* stored status holds Degraded and Ready, once each.
C19_Witness ==
    /\ Completed /\ hist.refresh = "skipped"
    /\ HasCondition(status.Conditions, ConditionTypeDegraded, ConditionTrue)
    /\ HasCondition(status.Conditions, ConditionTypeReady, ConditionTrue)
    /\ Len(status.Conditions) = 2

\* the policy carries a selector that LabelSelectorAsSelector rejects
HasMalformedSelector ==
    \/ /\ ~IsNil(policySpec.NamespaceSelector)
       /\ Deref(policySpec.NamespaceSelector).Malformed
    \/ /\ ~IsNil(policySpec.DeploymentSelector)
       /\ Deref(policySpec.DeploymentSelector).Malformed

\* C24: under a policy with a malformed namespaceSelector or
\* workloadSelector no cycle completes: none analyses or remediates a
\* deployment, writes the status or returns the requeue delay.
C24_MalformedSelectorFatal ==
    HasMalformedSelector =>
        /\ hist.outcome # "requeue"
        /\ hist.writes = 0
        /\ hist.analysed = << >> /\ hist.updates = << >>
        /\ status = EmptyStatus

\* the names, with namespaces, of a list of deployments or of statuses
NamesOf(q) == [ i \in 1..Len(q) |-> << q[i].Namespace, q[i].Name >> ]

\* C25: the status a cycle writes lists exactly the deployments of the
\* cycle's scan, one entry each, in scan order, every entry made in this
\* cycle; totalDeployments is the number of entries, compliantDeployments
\* the number of compliant entries, between 0 and totalDeployments.
C25_StatusRecomputedFromScan ==
    [][ StatusWrite =>
          LET md == status'.MonitoredDeployments
              scan == findDeploymentsToMonitor(cluster, policySpec,
                          policySpec.Repository, FALSE).deployments
          IN  /\ NamesOf(md) = NamesOf(cyc.deployments)
              /\ NamesOf(md) = NamesOf(scan)
              /\ \A i \in 1..Len(md) :
                     /\ ~IsNil(md[i].LastUpdated)
                     /\ Deref(md[i].LastUpdated) >= cyc.now
              /\ status'.TotalDeployments = Len(md)
              /\ status'.CompliantDeployments = Cardinality(CompliantIn(md))
              /\ 0 <= status'.CompliantDeployments
              /\ status'.CompliantDeployments <= status'.TotalDeployments ]_vars

\* C25 witness: a later cycle has replaced the status of an earlier one,
\* for a scan of two deployments or more.
C25_Witness ==
    /\ Completed /\ hist.refresh = "skipped"
    /\ Len(status.MonitoredDeployments) >= 2
    /\ status.TotalDeployments = Len(status.MonitoredDeployments)
    /\ \A i \in 1..Len(status.MonitoredDeployments) :
         Deref(status.MonitoredDeployments[i].LastUpdated)
           > Deref(status.LastChecked)

\* C27: a cycle that completes returns a requeue delay of
\* checkIntervalSeconds, 60 seconds when the policy sets none, also after a
\* failed digest resolution; a cycle that ends with an error returns none.
C27_RequeueAfterCheckInterval ==
    /\ hist.outcome = "requeue" =>
          hist.requeueAfter = IF policySpec.CheckIntervalSeconds = << >> THEN 60
                              ELSE policySpec.CheckIntervalSeconds[1]
    /\ hist.outcome = "error" => hist.requeueAfter = 0

\* C27 witness: a cycle whose digest resolution failed has completed under
\* a policy with an interval of 10 seconds and returned that delay.
C27_Witness ==
    /\ Completed /\ hist.refresh = "failed"
    /\ policySpec.CheckIntervalSeconds = Some(10)
    /\ hist.requeueAfter = 10

(***************************************************************************)
(* Properties of the scanner (checked under SpecScan)                      *)
(***************************************************************************)
\* the text begins with the prefix
Begins(text, prefix) ==
    /\ Len(text) >= Len(prefix)
    /\ \A i \in 1..Len(prefix) : text[i] = prefix[i]

\* the image is one of the repository, with or without docker.io/ in front
OfRepository(image, repository) ==
    Begins(image, repository) \/ Begins(image, << "docker.io/" >> \o repository)

\* the scan of a cycle returns its deployments
ScanReturns == pc = "scan" /\ pc' \in { "analyze", "write" }

\* the namespace of the deployment is resolved: every namespace when the
\* policy has no namespaceSelector, those whose labels match it otherwise
InResolvedNamespace(d) ==
    \E k \in 1..Len(Namespaces) :
        /\ Namespaces[k].Name = d.Namespace
        /\ \/ policySpec.NamespaceSelector = << >>
           \/ policySpec.NamespaceSelector[1].MatchLabels
                \subseteq Namespaces[k].Labels

\* an image of the deployment begins with the repository or docker.io/ +
\* the repository
UsesRepository(d) ==
    \E i \in 1..Len(d.Containers) :
        OfRepository(d.Containers[i], policySpec.Repository)

\* the deployment's labels pass the workloadSelector, when there is one
PassesWorkloadSelector(d) ==
    \/ policySpec.DeploymentSelector = << >>
    \/ policySpec.DeploymentSelector[1].MatchLabels \subseteq d.Labels

Returned26(d) == \E i \in 1..Len(cyc'.deployments) : cyc'.deployments[i] = d

\* C26: the scanner returns a deployment of a resolved namespace exactly
\* when one of its images begins with the repository or with docker.io/ +
\* the repository.
C26_ScanByNamespaceAndPrefix ==
    [][ ScanReturns =>
          \A k \in 1..Len(cluster) :
              Returned26(cluster[k]) <=>
                  (InResolvedNamespace(cluster[k]) /\ UsesRepository(cluster[k]))
      ]_vars

\* C26 as amended: the scanner returns a deployment exactly when its
\* namespace is resolved, its labels pass the workloadSelector if the
\* policy has one, and one of its images begins with the repository or
\* with docker.io/ + the repository.
C26_ScanBySelectorsAndPrefix ==
    [][ ScanReturns =>
          \A k \in 1..Len(cluster) :
              Returned26(cluster[k]) <=>
                  /\ InResolvedNamespace(cluster[k])
                  /\ PassesWorkloadSelector(cluster[k])
                  /\ UsesRepository(cluster[k]) ]_vars

\* C26 witness: under a namespaceSelector and a workloadSelector the scan
\* has returned the deployment whose only image is of a sibling repository
\* and neither the one of the other namespace nor the one without the label.
C26_Witness ==
    /\ pc = "analyze" /\ cyc.i = 1
    /\ ~IsNil(policySpec.NamespaceSelector)
    /\ ~IsNil(policySpec.DeploymentSelector)
    /\ Len(cluster) = Len(ScanFleet)
    /\ NamesOf(cyc.deployments) = << << "demo", "twin" >> >>

(***************************************************************************)
(* Properties of the cycle on remediable clusters (SpecRemediable)         *)
(***************************************************************************)
\* the entries of a list of deployment statuses that report the deployment
EntriesOf(ds, deployment) ==
    { i \in 1..Len(ds) : /\ ds[i].Name = deployment.Name
                         /\ ds[i].Namespace = deployment.Namespace }

\* C22: the status a cycle writes reports every deployment the cycle tried
\* to remediate, with success or not, as not compliant and with the digest
\* the deployment had before the remediation, and compliantDeployments
\* counts only the entries reported compliant.
C22_RemediationLeavesVerdict ==
    [][ StatusWrite =>
          /\ \A k \in 1..Len(hist.updates) :
               LET u == hist.updates[k]
                   es == EntriesOf(status'.MonitoredDeployments, u.deployment)
               IN  /\ es # {}
                   /\ \A i \in es :
                        /\ ~status'.MonitoredDeployments[i].IsCompliant
                        /\ status'.MonitoredDeployments[i].CurrentDigest =
                             DigestVerdict(u.deployment.Containers,
                                 policySpec.Repository, u.latestDigest,
                                 TRUE).CurrentDigest
          /\ status'.CompliantDeployments =
               Cardinality(CompliantIn(status'.MonitoredDeployments)) ]_vars

\* C22 witness: a cycle that has rewritten a deployment to the latest
\* digest is about to write its status, in which the deployment is not
\* compliant and has another digest than the latest.
C22_Witness ==
    /\ pc = "write"
    /\ \E k \in 1..Len(hist.updates) :
         LET u == hist.updates[k]
         IN  /\ u.ok
             /\ \E i \in EntriesOf(cyc.deploymentStatuses, u.deployment) :
                  /\ ~cyc.deploymentStatuses[i].IsCompliant
                  /\ cyc.deploymentStatuses[i].CurrentDigest # u.latestDigest
             /\ \E d \in { cluster[j] : j \in 1..Len(cluster) } :
                  /\ d.Name = u.deployment.Name
                  /\ d.Containers = u.containers
                  /\ d.Containers # u.deployment.Containers

\* an update of this cycle was refused
UpdateFailed(h) == \E k \in 1..Len(h.updates) : ~h.updates[k].ok

\* the cycle should remediate the deployment it is looking at
RemediationDue(deployment) ==
    /\ PolicyEnforces
    /\ << "automation", "true" >> \in deployment.Labels
    /\ cyc.latestDigest # EmptyString
    /\ ~analyzeDeploymentCompliance(rekor, deployment, policySpec.Repository,
            cyc.latestDigest, TRUE, policySpec.AttestationPolicy,
            clock).status.IsCompliant

\* C23: a refused update does not end the cycle.  The loop goes on to the
\* next deployment of the scan, every later deployment is analysed and is
\* remediated when its own preconditions hold, and at the end the status
\* is written for all deployments of the scan and the cycle returns the
\* requeue delay, unless the status write itself is refused.
C23_FailedUpdateNonFatal ==
    [][ /\ (pc = "analyze" /\ UpdateFailed(hist')) =>
              /\ hist'.outcome = "running"
              /\ cyc'.i = cyc.i + 1
              /\ pc' = IF cyc.i < Len(cyc.deployments) THEN "analyze"
                       ELSE "write"
              /\ Len(hist'.analysed) = Len(hist.analysed) + 1
              /\ Len(hist'.updates) = Len(hist.updates) + 1
                   <=> RemediationDue(cyc.deployments[cyc.i])
        /\ (pc = "write" /\ UpdateFailed(hist)) =>
              /\ Len(hist.analysed) = Len(cyc.deployments)
              /\ \/ /\ hist'.outcome = "requeue"
                    /\ hist'.requeueAfter = cyc.checkInterval
                    /\ hist'.writes = hist.writes + 1
                    /\ Len(status'.MonitoredDeployments) = Len(cyc.deployments)
                 \/ /\ hist'.outcome = "error"
                    /\ hist'.writes = hist.writes
                    /\ status' = status ]_vars

\* C23 witness: in one cycle the update of a deployment was refused and
\* the update of a later deployment applied; the cycle is about to write
\* the status.
C23_Witness ==
    /\ pc = "write"
    /\ Len(hist.analysed) = Len(cyc.deployments)
    /\ \E k, l \in 1..Len(hist.updates) :
         k < l /\ ~hist.updates[k].ok /\ hist.updates[l].ok

(***************************************************************************)
(* Properties of the rekor client (checked under SpecVerify)               *)
(***************************************************************************)
Verified == ~IsNil(vCall.ret) /\ Deref(vCall.ret).Verified

\* "sha256:" followed by 64 characters
WellFormedDigest(d) ==
    Len(d) = 3 /\ d[1] = "sha256" /\ d[2] = ":" /\ TokLen(d[3]) = 64

\* the digests the client finds a log entry for
HasLogEntry ==
    IF vCall.client = "known" THEN vCall.digest = knownAttestedDigest
    ELSE WellFormedDigest(vCall.digest)

Allowed(x, list) == Len(list) = 0 \/ \E i \in 1..Len(list) : list[i] = x

\* C11: verified = true only with an issuer inside a non-empty
\* allowedIssuers and a type inside a non-empty requiredTypes.
C11_VerifiedOnlyWithinAllowLists ==
    Verified =>
        /\ Allowed(Deref(vCall.ret).Issuer, vCall.allowedIssuers)
        /\ Allowed(Deref(vCall.ret).AttestationType, vCall.requiredTypes)

\* C12: empty allow-lists are permissive: a digest with a log entry is
\* verified when allowedIssuers is empty and the type is allowed, and when
\* requiredTypes is empty and the issuer is allowed; matchesPolicy accepts
\* an entry of any issuer under an empty allowedIssuers when its type is
\* allowed, and of any type under an empty requiredTypes when its issuer is.
C12_EmptyAllowListsPermissive ==
    /\ (~IsNil(vCall.ret) /\ HasLogEntry
          /\ Allowed(IssuerGitHub, vCall.allowedIssuers)
          /\ Allowed(TypeSlsa, vCall.requiredTypes)
          /\ (Len(vCall.allowedIssuers) = 0 \/ Len(vCall.requiredTypes) = 0)) =>
            Deref(vCall.ret).Verified
    /\ (~IsNil(vCall.match) /\ Len(vCall.allowedIssuers) = 0
          /\ Allowed(vCall.entry.AttestationType, vCall.requiredTypes)) =>
            Deref(vCall.match).ok
    /\ (~IsNil(vCall.match) /\ Len(vCall.requiredTypes) = 0
          /\ Allowed(vCall.entry.Issuer, vCall.allowedIssuers)) =>
            Deref(vCall.match).ok

\* C12 witness: under an empty allowedIssuers and a non-empty requiredTypes
\* the allow-list client has verified a digest, and matchesPolicy has
\* accepted an entry of an issuer other than the client's own.
C12_Witness ==
    /\ vCall.client = "policy" /\ Verified
    /\ Len(vCall.allowedIssuers) = 0 /\ Len(vCall.requiredTypes) > 0
    /\ ~IsNil(vCall.match) /\ Deref(vCall.match).ok
    /\ vCall.entry.Issuer = IssuerOther

(***************************************************************************)
(* Properties of the digest resolver (checked under SpecResolve)           *)
(***************************************************************************)
ResolveDone == res.pc = "done" /\ ~Cancelled(res)

\* the registry answers the attempt with HTTP 429, on either request
Answers429(resp) ==
    /\ ~resp.tokenErr
    /\ \/ resp.tokenStatus = 429
       \/ resp.tokenDecodes /\ ~resp.manifestErr /\ resp.manifestStatus = 429

\* the attempt yields a digest
AnswersDigest(resp) ==
    /\ ~resp.tokenErr /\ resp.tokenStatus # 429 /\ resp.tokenDecodes
    /\ ~resp.manifestErr /\ resp.manifestStatus = 200
    /\ resp.header # EmptyString

\* the attempt fails for a reason other than HTTP 429
AnswersOtherFailure(resp) == ~Answers429(resp) /\ ~AnswersDigest(resp)

\* the first k attempts are answered with 429
First429(script, k) == \A i \in 1..k : Answers429(script[i])

LinearWaits(k) == [ i \in 1..k |-> i * baseDelay ]

RECURSIVE SumSeq(_)
SumSeq(q) == IF q = << >> THEN 0 ELSE Head(q) + SumSeq(Tail(q))

\* the run returns what the loop written as one function returns
ResolveAgrees ==
    ResolveDone =>
        LET g == getLatestDigestFromDockerHub(res.script)
        IN  /\ res.digest = g.digest /\ res.err = g.err
            /\ res.attempts = g.attempts /\ res.slept = g.slept
            /\ res.waits = g.waits

\* C13: 429 on the first k attempts (k < 3) and a digest on attempt k+1:
\* resolve returns that digest after exactly k+1 attempts, having waited
\* i * baseDelay before the attempt of index i and nothing before the
\* first; for 429, 429, success the waits are 5 then 10, 15 in all, over
\* exactly 3 attempts.
C13_RetryAfter429LinearBackoff ==
    \A k \in 0..2 :
        (ResolveDone /\ First429(res.script, k)
           /\ AnswersDigest(res.script[k + 1])) =>
            /\ res.err = NoError
            /\ res.digest = res.script[k + 1].header
            /\ res.attempts = k + 1
            /\ res.waits = LinearWaits(k)
            /\ res.slept = SumSeq(LinearWaits(k))
            /\ (k = 2 => res.waits = << 5, 10 >> /\ res.slept = 15)

\* C13 witness: a run answered 429, 429, digest has returned.
C13_Witness ==
    /\ ResolveDone /\ First429(res.script, 2) /\ AnswersDigest(res.script[3])
    /\ res.digest = D1 /\ res.attempts = 3 /\ res.slept = 15

\* what is left to do of a run; every step lowers it
Measure(r) ==
    IF r.pc = "done" THEN 0
    ELSE 6 * (IF r.attempt < 4 THEN 4 - r.attempt ELSE 0)
         + (CASE r.pc = "loop" -> 4 [] r.pc = "sleep" -> 3
              [] r.pc = "token" -> 2 [] r.pc = "tokenwait" -> 1
              [] OTHER -> 0)
         + (IF Cancelled(r) THEN 1 ELSE 2)

ExhaustedError ==
    << "failed to fetch digest after 3 attempts due to rate limiting" >>

\* C14: resolve terminates after at most 3 attempts: every step brings the
\* return nearer, no run makes a fourth attempt, and a run answered 429
\* three times returns the rate-limit-exhausted error, which is the error
\* of no single attempt, with no digest after exactly 3 attempts.
C14_AtMostThreeAttempts ==
    [][ /\ Measure(res') < Measure(res)
        /\ res'.attempts <= 3
        /\ (res'.pc = "done" /\ ~Cancelled(res') /\ First429(res'.script, 3)) =>
              /\ res'.err = ExhaustedError
              /\ \A r \in ResolverResponses :
                     fetchDigestFromDockerHub(r).err # res'.err
              /\ res'.digest = EmptyString
              /\ res'.attempts = 3 ]_vars

\* C14 witness: a run answered 429 three times has returned.
C14_Witness ==
    /\ ResolveDone /\ First429(res.script, 3)
    /\ res.err = ExhaustedError /\ res.attempts = 3

\* C15: an attempt that fails for a reason other than 429 ends the run:
\* resolve returns that attempt's error and no digest, the attempt is the
\* last one, and no backoff wait follows it, whichever index it has.
C15_OtherFailureReturnsImmediately ==
    \A j \in 1..3 :
        (~Cancelled(res) /\ First429(res.script, j - 1)
           /\ AnswersOtherFailure(res.script[j])) =>
            /\ res.attempt <= j - 1
            /\ res.attempts <= j
            /\ Len(res.waits) <= j - 1
            /\ res.pc = "done" =>
                  /\ res.err = fetchDigestFromDockerHub(res.script[j]).err
                  /\ res.err # NoError /\ res.err # ExhaustedError
                  /\ res.digest = EmptyString
                  /\ res.attempts = j
                  /\ res.waits = LinearWaits(j - 1)

\* C15 witness: a run whose second attempt met a 404 has returned, a third
\* answer left unread.
C15_Witness ==
    /\ ResolveDone /\ Answers429(res.script[1])
    /\ res.script[2].manifestStatus = 404 /\ AnswersDigest(res.script[3])
    /\ res.attempts = 2 /\ res.err # NoError

\* C16: a context cancelled during a backoff wait or a token request makes
\* the resolver return an error with no further registry request and no
\* further wait.
C16_CancelAbortsPromptly ==
    res.cancelledAt \in { "sleep", "tokenwait" } =>
        /\ res.lateRequests = 0
        /\ res.lateWaits = 0
        /\ res.pc = "done" => res.err # NoError

(***************************************************************************)
(* Properties of updateCondition (checked under SpecCondition)             *)
(***************************************************************************)
\* C20: the merge is by type.  A condition of the type that is stored with
\* the same status keeps its lastTransitionTime and takes the new reason
\* and message; stored with another status it takes the time of the call;
\* a type not stored is added with the time of the call; the conditions of
\* the other types stay as they are, where they are.
C20_ConditionMergeByType ==
    ~IsNil(cCall.ret) =>
        LET old == cCall.conditions
            new == Deref(cCall.ret)
            same == { i \in 1..Len(old) : old[i].Type = cCall.conditionType }
        IN  /\ \A i \in 1..Len(old) : i \notin same => new[i] = old[i]
            /\ \A i \in same :
                   /\ new[i].Type = cCall.conditionType
                   /\ new[i].Status = cCall.status
                   /\ new[i].Reason = cCall.reason
                   /\ new[i].Message = cCall.message
                   /\ new[i].LastTransitionTime =
                        IF old[i].Status = cCall.status
                        THEN old[i].LastTransitionTime ELSE cCall.now
            /\ same # {} => Len(new) = Len(old)
            /\ same = {} =>
                   /\ Len(new) = Len(old) + 1
                   /\ new[Len(new)] =
                        Condition(cCall.conditionType, cCall.status, cCall.now,
                                  cCall.reason, cCall.message)

\* C20 witness: a call has rewritten a stored condition of the same status
\* next to a condition of another type, and the older time is kept.
C20_Witness ==
    /\ ~IsNil(cCall.ret) /\ Len(cCall.conditions) = 2
    /\ \E i \in 1..2 :
         /\ cCall.conditions[i].Type = cCall.conditionType
         /\ cCall.conditions[i].Status = cCall.status
         /\ Deref(cCall.ret)[i].LastTransitionTime
              = cCall.conditions[i].LastTransitionTime
         /\ Deref(cCall.ret)[i].LastTransitionTime < cCall.now
         /\ Deref(cCall.ret)[i].Reason = "New"

(***************************************************************************)
(* Properties of remediateDeployment (checked under SpecRemediate)         *)
(***************************************************************************)
\* C21: a successful remediation leaves every container of the repository
\* at <prefix>@<latestDigest>, the prefix being docker.io/<repository> when
\* the image began with docker.io/ and <repository> otherwise, and every
\* other container as it was; a deployment with no container of the
\* repository gets an error and no update; a deployment with one, whose
\* update the cluster accepts, is remediated with success.
C21_RemediationRewritesMatching ==
    ~IsNil(rCall.ret) =>
        LET old == rCall.deployment.Containers
            r == Deref(rCall.ret)
            repo == rCall.repository
            matching == { i \in 1..Len(old) : OfRepository(old[i], repo) }
        IN  /\ r.err = "" =>
                  /\ Len(r.stored) = Len(old)
                  /\ \A i \in 1..Len(old) :
                         r.stored[i] =
                           IF i \notin matching THEN old[i]
                           ELSE (IF Begins(old[i], << "docker.io/" >>)
                                 THEN << "docker.io/" >> \o repo ELSE repo)
                                \o << "@" >> \o rCall.latestDigest
            /\ matching = {} => r.err # "" /\ ~r.sent /\ r.stored = old
            /\ (matching # {} /\ rCall.updateOk) => r.err = ""

\* C21 witness: a call has succeeded on a deployment with an image of the
\* repository behind docker.io/ and an image of another repository.
C21_Witness ==
    /\ ~IsNil(rCall.ret) /\ Deref(rCall.ret).err = ""
    /\ rCall.repository = Repository
    /\ \E i, j \in 1..Len(rCall.deployment.Containers) :
         /\ rCall.deployment.Containers[i] = ImgDockerTag
         /\ rCall.deployment.Containers[j] = ImgOther
         /\ Deref(rCall.ret).stored[i] = DockerIO \o Repository \o At \o rCall.latestDigest
         /\ Deref(rCall.ret).stored[j] = ImgOther

(***************************************************************************)
(* Properties of the stored digests                                        *)
(***************************************************************************)
\* C28 (checked under SpecScan): in the stored status latestDigest, when
\* not empty, and the currentDigest of every deployment, when neither
\* empty nor "tag-based", is sha256: followed by 64 hexadecimal characters.
C28_StoredDigestsWellFormed ==
    /\ status.LatestDigest # EmptyString => WellFormedDigest(status.LatestDigest)
    /\ \A i \in 1..Len(status.MonitoredDeployments) :
         LET current == status.MonitoredDeployments[i].CurrentDigest
         IN  (current # EmptyString /\ current # << "tag-based" >>) =>
                 WellFormedDigest(current)

SharedObjects ==
    { a.object : a \in { x \in two.accesses :
        /\ x.mode = "w"
        /\ \E y \in two.accesses : y.policy # x.policy /\ y.object = x.object } }

\* C29: no interleaving of the cycles of two policies lets one cycle write
\* a policy status or the container images of a deployment that the other
\* cycle reads or writes.
C29_NoSharedMutableState == SharedObjects = {}

\* the deployment is in a namespace the policy resolves and passes the
\* policy's deployment selector
ListedBy(spec, d) ==
    /\ \E k \in 1..Len(Namespaces) :
          /\ Namespaces[k].Name = d.Namespace
          /\ \/ spec.NamespaceSelector = << >>
             \/ spec.NamespaceSelector[1].MatchLabels \subseteq Namespaces[k].Labels
    /\ \/ spec.DeploymentSelector = << >>
       \/ spec.DeploymentSelector[1].MatchLabels \subseteq d.Labels

\* C29 as amended: a cycle reads and writes no policy but its own, and
\* writes only deployments of its own scan; the only objects one cycle
\* writes and the other reads or writes are deployments that both
\* policies list, so two policies that list no common deployment share
\* nothing.
C29_SharedOnlyCommonDeployments ==
    /\ \A a \in two.accesses :
         /\ a.object[1] = "policy" => a.object = << "policy", a.policy >>
         /\ (a.object[1] = "deployment" /\ a.mode = "w") =>
               \E i \in 1..Len(two.cyc[a.policy].deployments) :
                   LET d == two.cyc[a.policy].deployments[i]
                   IN  << "deployment", d.Namespace, d.Name >> = a.object
    /\ \A o \in SharedObjects :
         /\ o[1] = "deployment"
         /\ \E k \in 1..Len(two.cluster) :
               /\ << "deployment", two.cluster[k].Namespace,
                     two.cluster[k].Name >> = o
               /\ ListedBy(two.spec[1], two.cluster[k])
               /\ ListedBy(two.spec[2], two.cluster[k])

\* C29 witness: two policies that list different namespaces have each
\* rewritten a deployment in cycles that ran at the same time, and share
\* no object.
C29_Witness ==
    /\ two.pc = << "write", "write" >>
    /\ \E a, b \in two.accesses :
         /\ a.policy = 1 /\ b.policy = 2
         /\ a.mode = "w" /\ b.mode = "w"
         /\ a.object # b.object
    /\ SharedObjects = {}

(***************************************************************************)
(* Properties of the conditions over several cycles (checked under Spec)   *)
(***************************************************************************)
\* C31: when the stored status carries a Degraded condition with status
\* True, left by a cycle whose digest resolution failed, the status written
\* by a later cycle whose digest resolution succeeded carries none.
C31_RecoveryClearsDegraded ==
    [][ ( /\ StatusWrite /\ hist.refresh = "ok"
          /\ HasCondition(status.Conditions, ConditionTypeDegraded,
                          ConditionTrue) ) =>
            ~HasCondition(status'.Conditions, ConditionTypeDegraded,
                          ConditionTrue) ]_vars

\* the Ready conditions of a status
ReadyOf(st) ==
    { st.Conditions[k] : k \in { j \in 1..Len(st.Conditions) :
                                   st.Conditions[j].Type = ConditionTypeReady } }

\* C32: every status a completed cycle writes carries a Ready condition with
\* status True, whatever the overall result and whether or not the digest
\* resolution failed; a Ready condition that is stored keeps its
\* lastTransitionTime in every later write.
C32_ReadyAlwaysTrue ==
    [][ /\ StatusWrite =>
             /\ ReadyOf(status') # {}
             /\ \A c \in ReadyOf(status') : c.Status = ConditionTrue
             /\ \A c \in ReadyOf(status) : \A d \in ReadyOf(status') :
                    d.LastTransitionTime = c.LastTransitionTime
        /\ ReadyOf(status') # ReadyOf(status) => StatusWrite ]_vars

\* C32 witness: a later cycle has resolved the digest and written the
\* status at a later time, with another reason for Ready than
\* NoDeployments, and Ready still carries the time of the first write.
C32_Witness ==
    /\ Completed
    /\ ~IsNil(status.LastChecked)
    /\ \E c \in ReadyOf(status) :
         /\ c.LastTransitionTime < Deref(status.LastChecked)
         /\ c.Reason # "NoDeployments"

(***************************************************************************)
(* Properties of the containers the analyzer judges (checked under         *)
(* SpecAnalyze)                                                            *)
(***************************************************************************)
\* the image is a reference by the digest given
Pinned(image, digest) ==
    /\ digest # EmptyString
    /\ Len(Split(image, "@")) = 2
    /\ Split(image, "@")[2] = digest

\* the containers remediateDeployment would rewrite
AMatching ==
    { i \in 1..Len(aIn.deployment.Containers) :
        ImageMatches(aIn.deployment.Containers[i], Repository) }

\* C33: with enforceLatestDigest, a workload reported compliant has every
\* container whose image matches the repository pinned to latestDigest.
C33_CompliantPinsEveryContainer ==
    (Analyzed /\ aIn.enforceLatest /\ AStatus.IsCompliant) =>
        \A i \in AMatching :
            Pinned(aIn.deployment.Containers[i], aIn.latestDigest)

\* C33 as amended: with enforceLatestDigest, a workload reported compliant
\* has its first container whose image matches the repository pinned to
\* latestDigest, and currentDigest is that digest; the matching containers
\* after the first are not judged.
C33_CompliantPinsFirstContainer ==
    (Analyzed /\ aIn.enforceLatest /\ AStatus.IsCompliant /\ AMatching # {}) =>
        /\ AFirst \in AMatching /\ \A i \in AMatching : AFirst <= i
        /\ Pinned(AImage, aIn.latestDigest)
        /\ AStatus.CurrentDigest = aIn.latestDigest

\* C33 witness: a workload reported compliant whose first matching
\* container is pinned to the latest digest and whose second matching
\* container is not.
C33_Witness ==
    /\ Analyzed /\ aIn.enforceLatest /\ AStatus.IsCompliant
    /\ AMatching # {}
    /\ Pinned(AImage, aIn.latestDigest)
    /\ \E i \in AMatching :
         /\ i > AFirst
         /\ ~Pinned(aIn.deployment.Containers[i], aIn.latestDigest)

(***************************************************************************)
(* Properties of remediation over several cycles (checked under Spec)      *)
(***************************************************************************)
\* every container of the deployment that matches the repository is a
\* reference by the digest
AllPinned(deployment, digest) ==
    \A i \in 1..Len(deployment.Containers) :
        ImageMatches(deployment.Containers[i], policySpec.Repository) =>
            Pinned(deployment.Containers[i], digest)

\* the deployment as the cycle scanned it carries the automation opt-in and
\* is no longer as the cluster started with it: an update of an earlier
\* cycle has succeeded on it (nothing else changes a deployment), and it
\* left every matching container on the stored latestDigest
RemediatedEarlier(deployment) ==
    /\ hasAutomationEnabled(deployment)
    /\ deployment.Containers # FleetNamed(deployment.Name).Containers
    /\ AllPinned(deployment, status.LatestDigest)

\* C34: under a policy that enforces the latest digest and requires no
\* attestation, a workload that an update of an earlier cycle has put on
\* latestDigest is, as long as the stored latestDigest stays what it was,
\* reported compliant with currentDigest = latestDigest by every later
\* cycle that completes, and is not updated again.
C34_RemediatedWorkloadConverges ==
    [][ ( /\ StatusWrite /\ PolicyEnforces
          /\ ~RequiresAttestation(policySpec.AttestationPolicy)
          /\ status'.LatestDigest = status.LatestDigest ) =>
            \A k \in 1..Len(cyc.deployments) :
                RemediatedEarlier(cyc.deployments[k]) =>
                    /\ status'.MonitoredDeployments[k].IsCompliant
                    /\ status'.MonitoredDeployments[k].CurrentDigest =
                           status.LatestDigest
                    /\ \A j \in 1..Len(hist.updates) :
                           hist.updates[j].deployment.Name #
                               cyc.deployments[k].Name ]_vars

\* C35: no update is sent for a workload whose matching containers all
\* reference latestDigest already; a workload that is non-compliant only
\* because its attestation failed is not rewritten.
C35_NoUpdateOfPinnedWorkload ==
    \A k \in 1..Len(hist.updates) :
        hist.updates[k].applied =>
            ~AllPinned(hist.updates[k].deployment, hist.updates[k].latestDigest)

(***************************************************************************)
(* Properties of the repository of a rewritten image (checked under        *)
(* SpecRemediate)                                                          *)
(***************************************************************************)
\* the repository part of an image reference: the text before the first
\* tag or digest separator
RepositoryPart(image) ==
    LET seps == { i \in 1..Len(image) : image[i] \in { "@", ":" } }
    IN  IF seps = {} THEN image
        ELSE SubSeq(image, 1, (CHOOSE i \in seps : \A j \in seps : i <= j) - 1)

\* C36: every container a remediation rewrites keeps the repository part of
\* its image reference, also when its image is of a sibling repository that
\* shares the string prefix of the policy's repository.
C36_RemediationKeepsRepository ==
    (~IsNil(rCall.ret) /\ Deref(rCall.ret).err = "") =>
        \A i \in 1..Len(rCall.deployment.Containers) :
            RepositoryPart(Deref(rCall.ret).stored[i]) =
                RepositoryPart(rCall.deployment.Containers[i])

(***************************************************************************)
(* Properties of the recorded attestation (checked under SpecAnalyze)      *)
(***************************************************************************)
\* C37: attestationDetails with verified = false carries no transparency-log
\* index, no attestation type and no issuer.
C37_MetadataOnlyWhenVerified ==
    (Analyzed /\ ARequires /\ ~IsNil(AStatus.AttestationDetails)
       /\ ~AVerified) =>
        /\ IsNil(Deref(AStatus.AttestationDetails).RekorLogIndex)
        /\ Deref(AStatus.AttestationDetails).AttestationType = ""
        /\ Deref(AStatus.AttestationDetails).Issuer = ""

(***************************************************************************)
(* Properties of one attempt of the resolver (checked under SpecResolve)   *)
(***************************************************************************)
\* what the registry answers to the attempt the resolver is at
CurrentAnswer == res.script[res.attempt + 1]

\* C38: an attempt whose token request is answered with a status other than
\* 200 goes no further than that answer and returns an error, never a
\* digest, whatever the manifest endpoint would answer.
C38_TokenFailureFailsClosed ==
    ( /\ res.pc \in { "manifest", "done" }
      /\ res.attempt < maxRetries
      /\ ~CurrentAnswer.tokenErr /\ CurrentAnswer.tokenStatus # 200 ) =>
        /\ res.pc = "done"
        /\ res.err # NoError
        /\ res.digest = EmptyString

====
